---- MODULE Spec2Model ----
(***************************************************************************)
(* A model of the QTI HID helper driver (src/unnamed/part_000): the        *)
(* command channel (stealth_write / process_hidden_command), the input     *)
(* injection engine (send_touch_event_safe), the key handler               *)
(* (handle_key_mapping / update_joystick_state), the heartbeat watchdog    *)
(* (heartbeat_timer_callback) and the worker (stealth_worker), all acting  *)
(* on the one struct stealth_config.                                       *)
(*                                                                         *)
(* Frames are sequences of bytes (0..255); offsets in the C code are       *)
(* 0-based, sequences here are 1-based, so data[k] of the code is          *)
(* data[k + 1] of the model.  C ints are 32-bit two's complement.          *)
(***************************************************************************)
EXTENDS Integers, Sequences, FiniteSets, TLC

(***************************************************************************)
(* Program constants.                                                      *)
(***************************************************************************)
MAGIC_SIGNATURE     == 1363429715   \* 0x51444953, "QDIS"
CMD_SET_SLIDE_KEY   == 161          \* 0xA1
CMD_SET_KEY_MAPPING == 162          \* 0xA2
CMD_SET_SENSITIVITY == 163          \* 0xA3
CMD_SET_MODE        == 164          \* 0xA4
CMD_SET_JOYSTICK    == 165          \* 0xA5
CMD_SET_CONFIG      == 166          \* 0xA6
CMD_GET_STATUS      == 167          \* 0xA7
CMD_ACTIVATE        == 168          \* 0xA8
CMD_DEACTIVATE      == 169          \* 0xA9
CMD_HEARTBEAT       == 170          \* 0xAA
MODE_CURSOR         == 0
MODE_VIEW           == 1
MODE_JOYSTICK       == 2
MODE_SILENT         == 3
EINVAL              == 22           \* the driver returns -EINVAL
hdr_min_len         == 7
WRITE_MAX           == 256          \* stealth_write truncates to 256 bytes
CRC_INIT            == 65535        \* 0xFFFF
CRC_POLY            == 40961        \* 0xA001
WORKER_THRESHOLD    == 10000
TOUCH_MAJOR         == 10
PRESSURE_MAX        == 255

(***************************************************************************)
(* 32-bit and 16-bit arithmetic.                                           *)
(***************************************************************************)
\* TLC's integers are 32-bit, as C's int is.  A u32 is given throughout as
\* the int with the same 32 bits, so the cast (int)u is the identity on this
\* reading and a u32 with its top bit set is a negative number.

\* One bit of the exclusive or of a and b, at the bit of weight p.
XorBit(a, b, p) == ((((a \div p) % 2) + ((b \div p) % 2)) % 2) * p

\* a ^ b on unsigned short operands.
Xor16(a, b) ==
      XorBit(a, b, 1)     + XorBit(a, b, 2)     + XorBit(a, b, 4)
    + XorBit(a, b, 8)     + XorBit(a, b, 16)    + XorBit(a, b, 32)
    + XorBit(a, b, 64)    + XorBit(a, b, 128)   + XorBit(a, b, 256)
    + XorBit(a, b, 512)   + XorBit(a, b, 1024)  + XorBit(a, b, 2048)
    + XorBit(a, b, 4096)  + XorBit(a, b, 8192)  + XorBit(a, b, 16384)
    + XorBit(a, b, 32768)

stealth_clamp(val, min, max) ==
    IF val < min THEN min
    ELSE IF val > max THEN max
    ELSE val

(***************************************************************************)
(* simple_crc16: bit-at-a-time reflected CRC.                              *)
(***************************************************************************)
\* The body of the inner loop: one shift of the register.
crc_shift(crc) ==
    IF crc % 2 = 1 THEN Xor16(crc \div 2, CRC_POLY) ELSE crc \div 2

\* The inner loop, for (j = 0; j < 8; j++).
crc_byte(crc, byte) ==
    crc_shift(crc_shift(crc_shift(crc_shift(
    crc_shift(crc_shift(crc_shift(crc_shift(Xor16(crc, byte)))))))))

\* The outer loop over data[lo..hi], the register being crc on entry.  The
\* range is halved so that the evaluation stays shallow; the bytes are still
\* folded in from left to right.
RECURSIVE crc_range(_, _, _, _)
crc_range(data, lo, hi, crc) ==
    IF lo > hi THEN crc
    ELSE IF lo = hi THEN crc_byte(crc, data[lo])
    ELSE LET mid  == (lo + hi) \div 2
             left == crc_range(data, lo, mid, crc)
         IN  IF left >= 0 THEN crc_range(data, mid + 1, hi, left) ELSE left

simple_crc16_seed0(data) == crc_range(data, 1, Len(data), 0)

simple_crc16(data) == crc_range(data, 1, Len(data), CRC_INIT)

(***************************************************************************)
(* Little-endian reads; off is the C offset (0-based).                     *)
(***************************************************************************)
get_unaligned_le16(data, off) == data[off + 1] + 256 * data[off + 2]

\* The u32 read, as the int with the same bits: the top byte counts signed.
get_unaligned_le32(data, off) ==
    data[off + 1] + 256 * data[off + 2] + 65536 * data[off + 3]
    + 16777216 * (IF data[off + 4] >= 128 THEN data[off + 4] - 256
                  ELSE data[off + 4])

(***************************************************************************)
(* State.                                                                  *)
(*   cfg    stealth_dev->config (struct stealth_config)                    *)
(*   now    jiffies                                                        *)
(*   mutex  the owner of stealth_dev->lock, or NoOwner                     *)
(*   pc     each writer's position in stealth_write/process_hidden_command *)
(*   buf    each writer's user buffer, the argument of its write call      *)
(*   ret    process_hidden_command's local ret while the call runs, the    *)
(*          value stealth_write returned once it is over                   *)
(*   site   the statement that decided the call's result                   *)
(*   reg    the value a writer loaded for stats_commands++                 *)
(*   returned_ok  history: the writes that returned success since the      *)
(*          worker last cleared the counters                               *)
(*   tpc    heartbeat_timer_callback's position (it holds config_lock      *)
(*          while it is not "idle")                                        *)
(*   wpc    stealth_worker's position                                      *)
(*   ipc    the position of the context running send_touch_event_safe      *)
(*   call   that call's arguments and locals                               *)
(*   sink   the input device: the last report synced to it, if any         *)
(***************************************************************************)
VARIABLES cfg, now, mutex, pc, buf, ret, site, reg, returned_ok,
          tpc, wpc, ipc, call, sink, kpc, key, sq

writerVars == <<pc, buf, ret, site, reg>>

injectVars == <<ipc, call, sink>>

keyVars == <<kpc, key>>

vars == <<cfg, now, mutex, pc, buf, ret, site, reg, returned_ok,
          tpc, wpc, ipc, call, sink, kpc, key, sq>>

Writers == {"w1", "w2"}

\* Bounds of the model.
MaxJiffies  == 2     \* jiffies is observed at 0..MaxJiffies and once later
MaxCommands == 2     \* writes are issued while fewer than this were counted
MaxMoves    == 2     \* injections are issued while stats_moves < MaxMoves

NoOwner == "none"
Worker  == "worker"

\* stealth_driver_init: the device is kzalloc'ed (all zero), then configured.
InitConfig ==
    [ activated        |-> 0,
      activate_time    |-> 0,
      screen_width     |-> 2800,
      screen_height    |-> 2000,
      max_touch_points |-> 10,
      slide_key |->
        [ enabled |-> 1, trigger_key |-> 56, slide_x |-> 1400,
          slide_y |-> 1000, max_radius |-> 200, sensitivity |-> 100,
          require_shift |-> 0, shift_key |-> 0, active |-> 0, sliding |-> 0,
          current_x |-> 0, current_y |-> 0, hold_time |-> 50,
          release_delay |-> 0 ],
      cursor |->
        [ speed |-> 5, left_click_x |-> 2100, left_click_y |-> 1800,
          right_click_x |-> 2000, right_click_y |-> 1800,
          current_x |-> 1400, current_y |-> 1000, active |-> 0,
          last_key |-> 0 ],
      view |->
        [ center_x |-> 1400, center_y |-> 1000, max_radius |-> 300,
          deadzone |-> 20, sensitivity |-> 100, auto_release_time |-> 0,
          active |-> 0, current_x |-> 0, current_y |-> 0, last_dx |-> 0,
          last_dy |-> 0 ],
      joystick |->
        [ enabled |-> 1, center_x |-> 700, center_y |-> 1500,
          radius |-> 150, deadzone |-> 10, active |-> 0, current_x |-> 0,
          current_y |-> 0, move_slot |-> 3, key_up |-> 17, key_down |-> 31,
          key_left |-> 30, key_right |-> 32, key_states |-> 0 ],
      keymap_list            |-> << >>,
      current_mode           |-> MODE_SILENT,
      jitter_range           |-> 2,
      stealth_level          |-> 5,
      initialized            |-> 1,
      heartbeat_interval     |-> 30,
      mode_switch_key        |-> 59,
      enable_instant_release |-> 1,
      stats_moves    |-> 0,
      stats_clicks   |-> 0,
      stats_slides   |-> 0,
      stats_commands |-> 0 ]

\* The checks of lines 498-513 with the CRC compared before the magic.
phc_validate_crc_first(data, len) ==
    IF len < hdr_min_len THEN "short"
    ELSE IF get_unaligned_le16(data, 4)
              # simple_crc16(SubSeq(data, 7, len)) THEN "crc"
    ELSE IF get_unaligned_le32(data, 0) # MAGIC_SIGNATURE THEN "magic"
    ELSE "pass"

(***************************************************************************)
(* process_hidden_command, lines 498-513: the checks made before the mutex *)
(* is taken.  The result names the statement that rejects the frame, or    *)
(* "pass".                                                                 *)
(***************************************************************************)
phc_validate(data, len) ==
    IF len < hdr_min_len THEN "short"
    ELSE IF get_unaligned_le32(data, 0) # MAGIC_SIGNATURE THEN "magic"
    ELSE IF get_unaligned_le16(data, 4) # simple_crc16(SubSeq(data, 7, len))
         THEN "crc"
    ELSE "pass"

(***************************************************************************)
(* The progressive reads of CMD_SET_JOYSTICK and CMD_SET_SLIDE_KEY.  st is *)
(* [offset, rec]: the local offset and the sub-structure being written.    *)
(*   if (offset + 4 <= len) { tmp = get_unaligned_le32(data + offset);     *)
(*                            offset += 4; rec.fld = (int)tmp; }           *)
(***************************************************************************)
progressive_read_zeroing(st, data, len, fld) ==
    IF st.offset + 4 <= len
    THEN [offset |-> st.offset + 4,
          rec    |-> [st.rec EXCEPT ![fld] = get_unaligned_le32(data, st.offset)]]
    ELSE [offset |-> st.offset, rec |-> [st.rec EXCEPT ![fld] = 0]]

progressive_read(st, data, len, fld) ==
    IF st.offset + 4 <= len
    THEN [offset |-> st.offset + 4,
          rec    |-> [st.rec EXCEPT ![fld] = get_unaligned_le32(data, st.offset)]]
    ELSE st

\* The reads of the fields flds, in order, from st on.
RECURSIVE progressive_reads(_, _, _, _)
progressive_reads(st, data, len, flds) ==
    IF flds = << >> THEN st
    ELSE progressive_reads(progressive_read(st, data, len, Head(flds)),
                           data, len, Tail(flds))

\* Lines 593-621.
joystick_fields ==
    << "center_x", "center_y", "radius", "deadzone", "move_slot", "enabled" >>

set_joystick(c, data, len) ==
    [c EXCEPT !.joystick =
        progressive_reads([offset |-> 7, rec |-> c.joystick], data, len,
                          joystick_fields).rec]

\* Lines 629-640.
slide_key_fields ==
    << "enabled", "trigger_key", "slide_x", "slide_y", "max_radius",
       "sensitivity", "hold_time", "release_delay" >>

set_slide_key(c, data, len) ==
    [c EXCEPT !.slide_key =
        progressive_reads([offset |-> 7, rec |-> c.slide_key], data, len,
                          slide_key_fields).rec]

(***************************************************************************)
(* process_hidden_command, lines 517-665: the switch on the command byte,  *)
(* one operator per case.  The result is the configuration after the       *)
(* case's stores, the value of ret and the statement that set it.          *)
(* CMD_ACTIVATE makes two stores; the first (activated = 1) is made here   *)
(* and the second (activate_time = jiffies) is the step PhcActivateTime,   *)
(* as the watchdog may run between the two.                                *)
(***************************************************************************)
Outcome(c, r, s) == [cfg |-> c, ret |-> r, site |-> s]

case_activate(c) == Outcome([c EXCEPT !.activated = 1], 0, "ok")

case_deactivate(c) == Outcome([c EXCEPT !.activated = 0], 0, "ok")

case_heartbeat_activating(c, jiffies) ==
    Outcome([c EXCEPT !.activate_time = jiffies, !.activated = 1], 0, "ok")

case_heartbeat(c, jiffies) ==
    Outcome([c EXCEPT !.activate_time = jiffies], 0, "ok")

case_set_config_len16(c, data, len) ==
    IF len < 16 THEN Outcome(c, -EINVAL, "cmdlen")
    ELSE Outcome([c EXCEPT !.current_mode = get_unaligned_le32(data, 7),
                           !.jitter_range = get_unaligned_le32(data, 11)],
                 0, "ok")

case_set_config(c, data, len) ==
    IF len < 15 THEN Outcome(c, -EINVAL, "cmdlen")
    ELSE Outcome([c EXCEPT !.current_mode = get_unaligned_le32(data, 7),
                           !.jitter_range = get_unaligned_le32(data, 11)],
                 0, "ok")

case_set_mode(c, data, len) ==
    IF len < 11 THEN Outcome(c, -EINVAL, "cmdlen")
    ELSE Outcome([c EXCEPT !.current_mode = get_unaligned_le32(data, 7)],
                 0, "ok")

case_set_sensitivity(c, data, len) ==
    IF len < 11 THEN Outcome(c, -EINVAL, "cmdlen")
    ELSE Outcome([c EXCEPT !.view.sensitivity =
                    stealth_clamp(get_unaligned_le32(data, 7), 1, 10000)],
                 0, "ok")

case_set_joystick(c, data, len) == Outcome(set_joystick(c, data, len), 0, "ok")

case_set_slide_key(c, data, len) ==
    Outcome(set_slide_key(c, data, len), 0, "ok")

case_set_key_mapping(c, data, len) ==
    IF len >= 11
    THEN IF get_unaligned_le32(data, 7) # 0
         THEN Outcome([c EXCEPT !.stats_clicks = @ + 1], 0, "ok")
         ELSE Outcome(c, 0, "ok")
    ELSE Outcome(c, -EINVAL, "keymap")

\* A default case with an error of its own, -EOPNOTSUPP.
case_default_unsupported(c) == Outcome(c, -95, "unknown")

case_default(c) == Outcome(c, -EINVAL, "unknown")

phc_switch(c, data, len, jiffies) ==
    LET cmd == data[7] IN
    CASE cmd = CMD_ACTIVATE        -> case_activate(c)
      [] cmd = CMD_DEACTIVATE      -> case_deactivate(c)
      [] cmd = CMD_HEARTBEAT       -> case_heartbeat(c, jiffies)
      [] cmd = CMD_SET_CONFIG      -> case_set_config(c, data, len)
      [] cmd = CMD_SET_MODE        -> case_set_mode(c, data, len)
      [] cmd = CMD_SET_SENSITIVITY -> case_set_sensitivity(c, data, len)
      [] cmd = CMD_SET_JOYSTICK    -> case_set_joystick(c, data, len)
      [] cmd = CMD_SET_SLIDE_KEY   -> case_set_slide_key(c, data, len)
      [] cmd = CMD_SET_KEY_MAPPING -> case_set_key_mapping(c, data, len)
      [] OTHER                     -> case_default(c)

\* stealth_write, lines 709-710 and 716: the bytes copied into the kernel.
copied_len(len) == IF len > WRITE_MAX THEN WRITE_MAX ELSE len

copy_from_user(ubuf) == SubSeq(ubuf, 1, copied_len(Len(ubuf)))

\* stealth_write, lines 732-734: the value returned for the result r of
\* process_hidden_command on len copied bytes.
write_result(r, len) == IF r < 0 THEN r ELSE len

(***************************************************************************)
(* The write path, one action per stretch of code between two points where *)
(* another context can be observed or observe.                             *)
(*                                                                         *)
(*   idle --StealthWrite--> lock --MutexLock--> switch --PhcSwitch-->      *)
(*        [activate_time --PhcActivateTime-->] count --PhcCount-->         *)
(*        [count_store --PhcCountStore-->] unlock --PhcUnlock--> done      *)
(*   idle --StealthWrite--> done   (a frame rejected before the mutex)     *)
(*   done --WriteReturn--> idle    (the caller has its result)             *)
(*                                                                         *)
(* kzalloc and copy_from_user are taken to succeed.                        *)
(***************************************************************************)
KernelData(w) == copy_from_user(buf[w])

KernelLen(w) == Len(KernelData(w))

\* stealth_write up to mutex_lock, lines 706-729 and 498-513: what the
\* checks made on the user buffer f before the mutex say, "short", "magic",
\* "crc" or "pass".
write_check(f) ==
    IF Len(f) < hdr_min_len THEN "short"
    ELSE phc_validate(copy_from_user(f), copied_len(Len(f)))

\* The checks depend on the buffer alone: they are tabulated per buffer of
\* F, as pairs <<buffer, what write_check says>>.
Checked(F) == { <<f, write_check(f)>> : f \in F }

\* Writes are issued while fewer than MaxCommands commands were counted
\* above the value stats_commands started from.
MayWrite ==
    \E base \in {0, WORKER_THRESHOLD} :
        /\ cfg.stats_commands >= base
        /\ cfg.stats_commands < base + MaxCommands

\* FC is the tabulated set of buffers the callers write.
StealthWrite(w, FC) ==
    /\ pc[w] = "idle"
    /\ MayWrite
    /\ \E fc \in FC :
         /\ buf' = [buf EXCEPT ![w] = fc[1]]
         /\ IF fc[2] # "pass"
            THEN /\ ret'  = [ret EXCEPT ![w] = -EINVAL]
                 /\ site' = [site EXCEPT ![w] = fc[2]]
                 /\ pc'   = [pc EXCEPT ![w] = "done"]
            ELSE /\ ret'  = [ret EXCEPT ![w] = 0]
                 /\ site' = [site EXCEPT ![w] = "pass"]
                 /\ pc'   = [pc EXCEPT ![w] = "lock"]
    /\ UNCHANGED <<cfg, now, mutex, reg, returned_ok, tpc, wpc,
                   injectVars, keyVars, sq>>

\* A mutex_lock that does not wait for the owner to release.
MutexLockNoWait(w) ==
    /\ pc[w] = "lock"
    /\ mutex' = w
    /\ pc' = [pc EXCEPT ![w] = "switch"]
    /\ UNCHANGED <<cfg, now, buf, ret, site, reg, returned_ok, tpc, wpc,
                   injectVars, keyVars, sq>>

\* Line 515: mutex_lock(&stealth_dev->lock).
MutexLock(w) ==
    /\ pc[w] = "lock"
    /\ mutex = NoOwner
    /\ mutex' = w
    /\ pc' = [pc EXCEPT ![w] = "switch"]
    /\ UNCHANGED <<cfg, now, buf, ret, site, reg, returned_ok, tpc, wpc,
                   injectVars, keyVars, sq>>

\* Lines 517-665: the switch.
PhcSwitch(w) ==
    /\ pc[w] = "switch"
    /\ LET o == phc_switch(cfg, KernelData(w), KernelLen(w), now)
       IN  /\ cfg'  = o.cfg
           /\ ret'  = [ret EXCEPT ![w] = o.ret]
           /\ site' = [site EXCEPT ![w] = o.site]
    /\ pc' = [pc EXCEPT ![w] =
                IF KernelData(w)[7] = CMD_ACTIVATE THEN "activate_time"
                ELSE "count"]
    /\ UNCHANGED <<now, mutex, buf, reg, returned_ok, tpc, wpc,
                   injectVars, keyVars, sq>>

\* Line 521: stealth_dev->config.activate_time = jiffies.
PhcActivateTime(w) ==
    /\ pc[w] = "activate_time"
    /\ cfg' = [cfg EXCEPT !.activate_time = now]
    /\ pc' = [pc EXCEPT ![w] = "count"]
    /\ UNCHANGED <<now, mutex, buf, ret, site, reg, returned_ok, tpc, wpc,
                   injectVars, keyVars, sq>>

\* A count that does not look at ret.
PhcCountAlways(w) ==
    /\ pc[w] = "count"
    /\ reg' = [reg EXCEPT ![w] = cfg.stats_commands]
    /\ pc'  = [pc EXCEPT ![w] = "count_store"]
    /\ UNCHANGED <<cfg, now, mutex, buf, ret, site, returned_ok, tpc, wpc,
                   injectVars, keyVars, sq>>

\* A failed command that returns from the switch without the unlock.
PhcCountLeak(w) ==
    /\ pc[w] = "count"
    /\ IF ret[w] = 0
       THEN /\ reg' = [reg EXCEPT ![w] = cfg.stats_commands]
            /\ pc'  = [pc EXCEPT ![w] = "count_store"]
       ELSE /\ reg' = reg
            /\ pc'  = [pc EXCEPT ![w] = "done"]
    /\ UNCHANGED <<cfg, now, mutex, buf, ret, site, returned_ok, tpc, wpc,
                   injectVars, keyVars, sq>>

\* Lines 667-668: if (ret == 0), the load of stats_commands++.
PhcCount(w) ==
    /\ pc[w] = "count"
    /\ IF ret[w] = 0
       THEN /\ reg' = [reg EXCEPT ![w] = cfg.stats_commands]
            /\ pc'  = [pc EXCEPT ![w] = "count_store"]
       ELSE /\ reg' = reg
            /\ pc'  = [pc EXCEPT ![w] = "unlock"]
    /\ UNCHANGED <<cfg, now, mutex, buf, ret, site, returned_ok, tpc, wpc,
                   injectVars, keyVars, sq>>

\* Line 668: the store of stats_commands++.
PhcCountStore(w) ==
    /\ pc[w] = "count_store"
    /\ cfg' = [cfg EXCEPT !.stats_commands = reg[w] + 1]
    /\ reg' = [reg EXCEPT ![w] = 0]
    /\ pc'  = [pc EXCEPT ![w] = "unlock"]
    /\ UNCHANGED <<now, mutex, buf, ret, site, returned_ok, tpc, wpc,
                   injectVars, keyVars, sq>>

\* Lines 670-671 and 731-734: unlock, return.
PhcUnlock(w) ==
    /\ pc[w] = "unlock"
    /\ mutex' = NoOwner
    /\ ret' = [ret EXCEPT ![w] = write_result(ret[w], KernelLen(w))]
    /\ returned_ok' = IF ret[w] < 0 THEN returned_ok ELSE returned_ok + 1
    /\ pc' = [pc EXCEPT ![w] = "done"]
    /\ UNCHANGED <<cfg, now, buf, site, reg, tpc, wpc, injectVars, keyVars, sq>>

\* The caller takes the result; its next write is a new call.
WriteReturn(w) ==
    /\ pc[w] = "done"
    /\ pc'   = [pc EXCEPT ![w] = "idle"]
    /\ buf'  = [buf EXCEPT ![w] = << >>]
    /\ ret'  = [ret EXCEPT ![w] = 0]
    /\ site' = [site EXCEPT ![w] = "none"]
    /\ UNCHANGED <<cfg, now, mutex, reg, returned_ok, tpc, wpc,
                   injectVars, keyVars, sq>>

\* The kernel's tick rate.  The source does not fix it; only the product
\* heartbeat_interval * HZ enters the model.
HZ == 100

\* An instant by which an activation stamped at any of 0..MaxJiffies has
\* outlived the initial heartbeat_interval.
Late == MaxJiffies + InitConfig.heartbeat_interval * HZ + 1

Instants == (0..MaxJiffies) \cup {Late}

\* jiffies advances, to one of the instants T.
Tick(T) ==
    /\ \E t \in T : t > now /\ now' = t
    /\ UNCHANGED <<cfg, mutex, writerVars, returned_ok, tpc, wpc,
                   injectVars, keyVars, sq>>

(***************************************************************************)
(* heartbeat_timer_callback.  The callback takes config_lock, a spinlock   *)
(* no other context takes; the writers hold the mutex instead, so the      *)
(* callback's accesses interleave with theirs.                             *)
(***************************************************************************)
\* The decision with the window closed at the interval itself.
heartbeat_expired_at_interval(c, jiffies) ==
    /\ c.activated # 0
    /\ c.heartbeat_interval > 0
    /\ jiffies - c.activate_time >= c.heartbeat_interval * HZ

\* Lines 769-776: the decision made under the spinlock.
heartbeat_expired(c, jiffies) ==
    /\ c.activated # 0
    /\ c.heartbeat_interval > 0
    /\ jiffies - c.activate_time > c.heartbeat_interval * HZ

\* Lines 767-775, and 779-784 when nothing is to be stored.
WatchdogCheck ==
    /\ tpc = "idle"
    /\ tpc' = IF heartbeat_expired(cfg, now) THEN "store" ELSE "idle"
    /\ UNCHANGED <<cfg, now, mutex, writerVars, returned_ok, wpc,
                   injectVars, keyVars, sq>>

\* Lines 776-784: activated = 0, unlock, re-arm.
WatchdogStore ==
    /\ tpc = "store"
    /\ cfg' = [cfg EXCEPT !.activated = 0]
    /\ tpc' = "idle"
    /\ UNCHANGED <<now, mutex, writerVars, returned_ok, wpc,
                   injectVars, keyVars, sq>>

(***************************************************************************)
(* stealth_worker: every 100 ms, clear the counters when more than 10000   *)
(* commands were counted.  The test reads the counter without the mutex.   *)
(***************************************************************************)
\* A worker that clears the counters from 10000 commands on.
WorkerCheckAtThreshold ==
    /\ wpc = "sleep"
    /\ wpc' = IF cfg.stats_commands >= WORKER_THRESHOLD THEN "lock" ELSE "sleep"
    /\ UNCHANGED <<cfg, now, mutex, writerVars, returned_ok, tpc,
                   injectVars, keyVars, sq>>

\* Line 797.
WorkerCheck ==
    /\ wpc = "sleep"
    /\ wpc' = IF cfg.stats_commands > WORKER_THRESHOLD THEN "lock" ELSE "sleep"
    /\ UNCHANGED <<cfg, now, mutex, writerVars, returned_ok, tpc,
                   injectVars, keyVars, sq>>

\* A worker that takes the mutex without waiting for its owner.
WorkerLockNoWait ==
    /\ wpc = "lock"
    /\ mutex' = Worker
    /\ wpc' = "reset_moves"
    /\ UNCHANGED <<cfg, now, writerVars, returned_ok, tpc,
                   injectVars, keyVars, sq>>

\* Line 798.
WorkerLock ==
    /\ wpc = "lock"
    /\ mutex = NoOwner
    /\ mutex' = Worker
    /\ wpc' = "reset_moves"
    /\ UNCHANGED <<cfg, now, writerVars, returned_ok, tpc,
                   injectVars, keyVars, sq>>

\* Lines 799-802, one store each.
WorkerReset ==
    /\ \/ /\ wpc = "reset_moves"
          /\ cfg' = [cfg EXCEPT !.stats_moves = 0]
          /\ wpc' = "reset_clicks"
          /\ UNCHANGED returned_ok
       \/ /\ wpc = "reset_clicks"
          /\ cfg' = [cfg EXCEPT !.stats_clicks = 0]
          /\ wpc' = "reset_slides"
          /\ UNCHANGED returned_ok
       \/ /\ wpc = "reset_slides"
          /\ cfg' = [cfg EXCEPT !.stats_slides = 0]
          /\ wpc' = "reset_commands"
          /\ UNCHANGED returned_ok
       \/ /\ wpc = "reset_commands"
          /\ cfg' = [cfg EXCEPT !.stats_commands = 0]
          /\ wpc' = "unlock"
          /\ returned_ok' = 0
    /\ UNCHANGED <<now, mutex, writerVars, tpc, injectVars, keyVars, sq>>

\* Line 803.
WorkerUnlock ==
    /\ wpc = "unlock"
    /\ mutex' = NoOwner
    /\ wpc' = "sleep"
    /\ UNCHANGED <<cfg, now, writerVars, returned_ok, tpc,
                   injectVars, keyVars, sq>>

(***************************************************************************)
(* 32-bit arithmetic.  An unsigned int is held as the int with the same 32 *)
(* bits.  The kernel is built with -fno-strict-overflow: int arithmetic    *)
(* wraps.                                                                  *)
(***************************************************************************)
INT_MAX == 2147483647

INT_MIN == -INT_MAX - 1

\* a + b modulo 2^32.
Add32(a, b) ==
    IF a >= 0 /\ b >= 0
    THEN IF a > INT_MAX - b THEN (a - INT_MAX - 1) + (b - INT_MAX - 1)
         ELSE a + b
    ELSE IF a < 0 /\ b < 0
    THEN IF a < INT_MIN - b THEN (a + INT_MAX + 1) + (b + INT_MAX + 1)
         ELSE a + b
    ELSE a + b

\* a - b modulo 2^32.
Sub32(a, b) == IF b = INT_MIN THEN Add32(a, INT_MIN) ELSE Add32(a, -b)

\* a < b as unsigned ints.
ULess(a, b) == IF (a >= 0) = (b >= 0) THEN a < b ELSE a >= 0

\* (a + b) % m for 0 <= a, b < m.
AddMod(a, b, m) == IF a >= m - b THEN a - (m - b) ELSE a + b

\* u % m as unsigned ints, m # 0.
UMod(u, m) ==
    IF m < 0 THEN (IF ULess(u, m) THEN u ELSE u - m)
    ELSE IF u >= 0 THEN u % m
    ELSE LET half == AddMod(INT_MAX % m, 1 % m, m)      \* 2^31 % m
         IN  AddMod(u % m, AddMod(half, half, m), m)

\* u >> 8 as an unsigned int.
Shr8(u) ==
    IF u >= 0 THEN u \div 256 ELSE ((u + INT_MAX + 1) \div 256) + 8388608

\* a * b modulo 2^32, by the bytes of the factors: the product's byte k
\* sums the byte products a_i * b_j with i + j = k, and the carry.
Mul32(a, b) ==
    LET a0 == a % 256
        a1 == (a \div 256) % 256
        a2 == (a \div 65536) % 256
        a3 == (a \div 16777216) % 256
        b0 == b % 256
        b1 == (b \div 256) % 256
        b2 == (b \div 65536) % 256
        b3 == (b \div 16777216) % 256
        t0 == a0 * b0
        t1 == (a0 * b1) + (a1 * b0) + (t0 \div 256)
        t2 == (a0 * b2) + (a1 * b1) + (a2 * b0) + (t1 \div 256)
        t3 == (a0 * b3) + (a1 * b2) + (a2 * b1) + (a3 * b0) + (t2 \div 256)
        r3 == t3 % 256
    IN  (t0 % 256) + (256 * (t1 % 256)) + (65536 * (t2 % 256))
            + (16777216 * (IF r3 >= 128 THEN r3 - 256 ELSE r3))

\* a / b of C, which truncates toward zero, for b > 0.
Div32(a, b) ==
    IF a < 0 /\ a % b # 0 THEN (a \div b) + 1 ELSE a \div b

\* a % b of C, which has the sign of a, for b > 0.
Rem32(a, b) ==
    IF a < 0 /\ a % b # 0 THEN (a % b) - b ELSE a % b

\* abs(v); the kernel is built with wrapping signed arithmetic.
abs(v) == IF v < 0 THEN Sub32(0, v) ELSE v

(***************************************************************************)
(* send_touch_event_safe(slot, x, y, pressure).                            *)
(*                                                                         *)
(*   idle --Inject--> clamp --InjectClamp--> emit --InjectEmit-->          *)
(*        count --InjectCountLoad--> count_store --InjectCountStore-->     *)
(*        idle                                                             *)
(*   idle --Inject--> idle   (activated is 0)                              *)
(***************************************************************************)
NoCall == [slot |-> 0, x |-> 0, y |-> 0, pressure |-> 0, moves |-> 0]

\* No key event is being handled.
NoKey == [keycode |-> 0, pressed |-> 0, args |-> <<0, 0, 0, 0>>, next |-> "idle"]

\* No call of fast_sqrt is going on.
NoSqrt == [pc |-> "idle", x |-> 0, y |-> 0]

\* Lines 305-307 with the screen's width and height as the upper limits.
inject_clamp_to_size(c, a) ==
    [a EXCEPT !.x = stealth_clamp(a.x, 0, c.screen_width),
              !.y = stealth_clamp(a.y, 0, c.screen_height),
              !.pressure = stealth_clamp(a.pressure, 0, PRESSURE_MAX)]

\* Lines 305-307.
inject_clamp(c, a) ==
    [a EXCEPT !.x = stealth_clamp(a.x, 0, c.screen_width - 1),
              !.y = stealth_clamp(a.y, 0, c.screen_height - 1),
              !.pressure = stealth_clamp(a.pressure, 0, PRESSURE_MAX)]

\* Lines 310-322 without the clamp of lines 323-324.
inject_jitter_unclamped(c, a, rand_val) ==
    IF c.jitter_range > 0 /\ a.pressure > 0
    THEN LET m  == Add32(Add32(c.jitter_range, c.jitter_range), 1)
             jx == Sub32(UMod(rand_val, m), c.jitter_range)
             jy == Sub32(UMod(Shr8(rand_val), m), c.jitter_range)
         IN  [a EXCEPT !.x = Add32(a.x, jx), !.y = Add32(a.y, jy)]
    ELSE a

\* Lines 310-325.
inject_jitter(c, a, rand_val) ==
    IF c.jitter_range > 0 /\ a.pressure > 0
    THEN LET m  == Add32(Add32(c.jitter_range, c.jitter_range), 1)
             jx == Sub32(UMod(rand_val, m), c.jitter_range)
             jy == Sub32(UMod(Shr8(rand_val), m), c.jitter_range)
         IN  [a EXCEPT
                !.x = stealth_clamp(Add32(a.x, jx), 0, c.screen_width - 1),
                !.y = stealth_clamp(Add32(a.y, jy), 0, c.screen_height - 1)]
    ELSE a

\* Lines 328-341: the report synced to the input device, its axes in the
\* order they are reported.
touch_report(a) ==
    [slot   |-> a.slot,
     finger |-> IF a.pressure > 0 THEN 1 ELSE 0,
     axes   |-> IF a.pressure > 0
                THEN << <<"ABS_MT_POSITION_X", a.x>>,
                        <<"ABS_MT_POSITION_Y", a.y>>,
                        <<"ABS_MT_PRESSURE", a.pressure>>,
                        <<"ABS_MT_TOUCH_MAJOR", TOUCH_MAJOR>>,
                        <<"ABS_MT_TRACKING_ID", a.slot>> >>
                ELSE << <<"ABS_MT_TRACKING_ID", -1>> >>]

\* Lines 299-302: the call and its activation check, for the arguments
\* a = <<slot, x, y, pressure>>.
InjectEntry(a) ==
    IF cfg.activated = 0
    THEN UNCHANGED <<ipc, call>>
    ELSE /\ ipc' = "clamp"
         /\ call' = [slot |-> a[1], x |-> a[2], y |-> a[3],
                     pressure |-> a[4], moves |-> 0]

\* A call from a context of its own.  A is the set of argument tuples
\* <<slot, x, y, pressure>> the callers pass.
Inject(A) ==
    /\ ipc = "idle"
    /\ cfg.stats_moves < MaxMoves
    /\ \E a \in A : InjectEntry(a)
    /\ UNCHANGED <<cfg, now, mutex, writerVars, returned_ok, tpc, wpc, sink,
                   keyVars, sq>>

\* Lines 305-325.  R is the set of values get_random_bytes yields.
InjectClamp(R) ==
    /\ ipc = "clamp"
    /\ \E rand_val \in R :
         call' = inject_jitter(cfg, inject_clamp(cfg, call), rand_val)
    /\ ipc' = "emit"
    /\ UNCHANGED <<cfg, now, mutex, writerVars, returned_ok, tpc, wpc, sink,
                   keyVars, sq>>

\* Lines 328-341.
InjectEmit ==
    /\ ipc = "emit"
    /\ sink' = << touch_report(call) >>
    /\ ipc' = "count"
    /\ UNCHANGED <<cfg, now, mutex, writerVars, returned_ok, tpc, wpc, call,
                   keyVars, sq>>

\* Line 342: the load of stats_moves++.
InjectCountLoad ==
    /\ ipc = "count"
    /\ call' = [call EXCEPT !.moves = cfg.stats_moves]
    /\ ipc' = "count_store"
    /\ UNCHANGED <<cfg, now, mutex, writerVars, returned_ok, tpc, wpc, sink,
                   keyVars, sq>>

\* A count of the presses alone.
InjectCountStoreOfPress ==
    /\ ipc = "count_store"
    /\ cfg' = IF call.pressure > 0
              THEN [cfg EXCEPT !.stats_moves = call.moves + 1]
              ELSE cfg
    /\ call' = NoCall
    /\ ipc' = "idle"
    /\ UNCHANGED <<now, mutex, writerVars, returned_ok, tpc, wpc, sink,
                   keyVars, sq>>

\* Line 342: the store of stats_moves++, and the return.
InjectCountStore ==
    /\ ipc = "count_store"
    /\ cfg' = [cfg EXCEPT !.stats_moves = call.moves + 1]
    /\ call' = NoCall
    /\ ipc' = "idle"
    /\ UNCHANGED <<now, mutex, writerVars, returned_ok, tpc, wpc, sink,
                   keyVars, sq>>

(***************************************************************************)
(* fast_sqrt, lines 236-251: the square root bit by bit from 1 << 15 down, *)
(* in int arithmetic.                                                      *)
(***************************************************************************)
RECURSIVE fast_sqrt_loop(_, _, _)
fast_sqrt_loop(x, y, b) ==
    IF b > 0
    THEN LET y_plus_b == Add32(y, b)
         IN  IF Mul32(y_plus_b, y_plus_b) <= x
             THEN fast_sqrt_loop(x, y_plus_b, b \div 2)
             ELSE fast_sqrt_loop(x, y, b \div 2)
    ELSE y

fast_sqrt(x) == IF x <= 0 THEN 0 ELSE fast_sqrt_loop(x, 0, 32768)

\* A call of fast_sqrt with an argument of X, and its return: sq holds the
\* argument x and, after the return, the value y returned.
FastSqrtCall(X) ==
    /\ sq.pc # "called"
    /\ \E x \in X : sq' = [pc |-> "called", x |-> x, y |-> 0]
    /\ UNCHANGED <<cfg, now, mutex, writerVars, returned_ok, tpc, wpc,
                   injectVars, keyVars>>

FastSqrtReturn ==
    /\ sq.pc = "called"
    /\ sq' = [sq EXCEPT !.pc = "returned", !.y = fast_sqrt(sq.x)]
    /\ UNCHANGED <<cfg, now, mutex, writerVars, returned_ok, tpc, wpc,
                   injectVars, keyVars>>

(***************************************************************************)
(* update_joystick_state(keycode, pressed), lines 346-415.  The result is  *)
(* the configuration after its stores, and the arguments of the call of    *)
(* send_touch_event_safe it ends with, if it makes one.                    *)
(***************************************************************************)
Bit(v, i) == (v \div (2 ^ i)) % 2

\* v | (1 << i) when pressed, v & ~(1 << i) when not.
key_bit(v, i, pressed) ==
    IF pressed # 0
    THEN (IF Bit(v, i) = 1 THEN v ELSE v + (2 ^ i))
    ELSE (IF Bit(v, i) = 1 THEN v - (2 ^ i) ELSE v)

\* Lines 353-374.
joystick_key_states(j, keycode, pressed) ==
    IF keycode = j.key_up THEN key_bit(j.key_states, 0, pressed)
    ELSE IF keycode = j.key_down THEN key_bit(j.key_states, 1, pressed)
    ELSE IF keycode = j.key_left THEN key_bit(j.key_states, 2, pressed)
    ELSE IF keycode = j.key_right THEN key_bit(j.key_states, 3, pressed)
    ELSE j.key_states

\* Lines 377-386: the sum of the pressed directions, and the dead zone.
joystick_dx(j, states) ==
    LET left  == IF Bit(states, 2) = 1 THEN Sub32(0, j.radius) ELSE 0
        dx    == IF Bit(states, 3) = 1 THEN Add32(left, j.radius) ELSE left
    IN  IF abs(dx) < j.deadzone THEN 0 ELSE dx

\* The vertical sum with key_down overriding key_up.
joystick_dy_down_wins(j, states) ==
    LET up    == IF Bit(states, 0) = 1 THEN Sub32(0, j.radius) ELSE 0
        dy    == IF Bit(states, 1) = 1 THEN j.radius ELSE up
    IN  IF abs(dy) < j.deadzone THEN 0 ELSE dy

joystick_dy(j, states) ==
    LET up    == IF Bit(states, 0) = 1 THEN Sub32(0, j.radius) ELSE 0
        dy    == IF Bit(states, 1) = 1 THEN Add32(up, j.radius) ELSE up
    IN  IF abs(dy) < j.deadzone THEN 0 ELSE dy

\* Lines 389-404: the position stored for the vector (dx, dy), not both 0.
joystick_position(j, dx, dy) ==
    LET x0       == Add32(j.center_x, dx)
        y0       == Add32(j.center_y, dy)
        dist_x   == Sub32(x0, j.center_x)
        dist_y   == Sub32(y0, j.center_y)
        distance == fast_sqrt(Add32(Mul32(dist_x, dist_x),
                                    Mul32(dist_y, dist_y)))
    IN  IF distance > j.radius
        THEN << Add32(j.center_x, Div32(Mul32(dist_x, j.radius), distance)),
                Add32(j.center_y, Div32(Mul32(dist_y, j.radius), distance)) >>
        ELSE << x0, y0 >>

NoSend == [cfg |-> InitConfig, send |-> FALSE, args |-> <<0, 0, 0, 0>>]

\* The update without the test of joystick.enabled.
update_joystick_state_unguarded(c, keycode, pressed) ==
    IF c.current_mode # MODE_JOYSTICK
    THEN [NoSend EXCEPT !.cfg = c]
    ELSE
    LET states == joystick_key_states(c.joystick, keycode, pressed)
        j      == [c.joystick EXCEPT !.key_states = states]
        dx     == joystick_dx(j, states)
        dy     == joystick_dy(j, states)
        at     == joystick_position(j, dx, dy)
    IN  IF dx # 0 \/ dy # 0
        THEN [cfg  |-> [c EXCEPT !.joystick =
                          [j EXCEPT !.current_x = at[1], !.current_y = at[2],
                                    !.active = 1]],
              send |-> TRUE,
              args |-> <<j.move_slot, at[1], at[2], 100>>]
        ELSE IF j.active # 0
        THEN [cfg  |-> [c EXCEPT !.joystick = [j EXCEPT !.active = 0]],
              send |-> TRUE,
              args |-> <<j.move_slot, 0, 0, 0>>]
        ELSE [NoSend EXCEPT !.cfg = [c EXCEPT !.joystick = j]]

update_joystick_state(c, keycode, pressed) ==
    IF c.joystick.enabled = 0 \/ c.current_mode # MODE_JOYSTICK
    THEN [NoSend EXCEPT !.cfg = c]
    ELSE
    LET states == joystick_key_states(c.joystick, keycode, pressed)
        j      == [c.joystick EXCEPT !.key_states = states]
        dx     == joystick_dx(j, states)
        dy     == joystick_dy(j, states)
        at     == joystick_position(j, dx, dy)
    IN  IF dx # 0 \/ dy # 0
        THEN [cfg  |-> [c EXCEPT !.joystick =
                          [j EXCEPT !.current_x = at[1], !.current_y = at[2],
                                    !.active = 1]],
              send |-> TRUE,
              args |-> <<j.move_slot, at[1], at[2], 100>>]
        ELSE IF j.active # 0
        THEN [cfg  |-> [c EXCEPT !.joystick = [j EXCEPT !.active = 0]],
              send |-> TRUE,
              args |-> <<j.move_slot, 0, 0, 0>>]
        ELSE [NoSend EXCEPT !.cfg = [c EXCEPT !.joystick = j]]

(***************************************************************************)
(* handle_key_mapping(keycode, pressed), lines 418-477.                    *)
(*                                                                         *)
(*   idle --HandleKey--> idle        (mode switch key pressed)             *)
(*   idle --HandleKey--> send | last_key | keymap                          *)
(*   send --KeySend--> sent --KeyReturn--> key.next                        *)
(*   msleep --KeySleep--> send       (the release of the cursor's tap)     *)
(*   tap_done --KeyTapDone--> last_key --KeyLastKey--> keymap              *)
(*   keymap --KeyMapWalk--> idle | send                                    *)
(*   click --KeyClickSleep--> send   (the release of a mapping's click)    *)
(*   done --KeyDone--> idle                                                *)
(*                                                                         *)
(* The handler takes no lock.                                              *)
(***************************************************************************)
\* Lines 423-426: the mode after a press of the mode switch key.
next_mode(mode) == Rem32(Add32(mode, 1), 4)

\* Lines 421-445, up to the first call of send_touch_event_safe.  E is the
\* set of events <<keycode, pressed>>.
HandleKey(E) ==
    /\ kpc = "idle"
    /\ cfg.stats_moves < MaxMoves
    /\ \E e \in E :
         LET keycode == e[1]
             pressed == e[2]
             ev      == [NoKey EXCEPT !.keycode = keycode, !.pressed = pressed]
         IN  IF keycode = cfg.mode_switch_key /\ pressed # 0
             THEN /\ cfg' = [cfg EXCEPT !.current_mode = next_mode(@)]
                  /\ UNCHANGED keyVars
             ELSE IF cfg.current_mode = MODE_JOYSTICK
             THEN LET u == update_joystick_state(cfg, keycode, pressed)
                  IN  /\ cfg' = u.cfg
                      /\ kpc' = IF u.send THEN "send" ELSE "keymap"
                      /\ key' = [ev EXCEPT !.args = u.args, !.next = "keymap"]
             ELSE IF cfg.current_mode = MODE_CURSOR
             THEN /\ IF keycode = cfg.cursor.last_key /\ pressed # 0
                     THEN /\ kpc' = "send"
                          /\ key' = [ev EXCEPT
                                       !.args = <<0, cfg.cursor.current_x,
                                                  cfg.cursor.current_y, 100>>,
                                       !.next = "msleep"]
                     ELSE /\ kpc' = "last_key"
                          /\ key' = ev
                  /\ UNCHANGED cfg
             ELSE /\ kpc' = "keymap"
                  /\ key' = ev
                  /\ UNCHANGED cfg
    /\ UNCHANGED <<now, mutex, writerVars, returned_ok, tpc, wpc, injectVars, sq>>

\* A call of send_touch_event_safe by the handler, lines 299-302 of it.
KeySend ==
    /\ kpc = "send"
    /\ ipc = "idle"
    /\ InjectEntry(key.args)
    /\ kpc' = "sent"
    /\ UNCHANGED <<cfg, now, mutex, writerVars, returned_ok, tpc, wpc, sink,
                   key, sq>>

\* The call has returned.
KeyReturn ==
    /\ kpc = "sent"
    /\ ipc = "idle"
    /\ kpc' = key.next
    /\ UNCHANGED <<cfg, now, mutex, writerVars, returned_ok, tpc, wpc,
                   injectVars, key, sq>>

\* Lines 436-438: msleep(50), then the release of the tap.
KeySleep ==
    /\ kpc = "msleep"
    /\ kpc' = "send"
    /\ key' = [key EXCEPT !.args = <<0, cfg.cursor.current_x,
                                     cfg.cursor.current_y, 0>>,
                          !.next = "tap_done"]
    /\ UNCHANGED <<cfg, now, mutex, writerVars, returned_ok, tpc, wpc,
                   injectVars, sq>>

\* Line 439.
KeyTapDone ==
    /\ kpc = "tap_done"
    /\ cfg' = [cfg EXCEPT !.cursor.active = 0]
    /\ kpc' = "last_key"
    /\ UNCHANGED <<now, mutex, writerVars, returned_ok, tpc, wpc, injectVars,
                   key, sq>>

\* A store of last_key made for presses only.
KeyLastKeyOfPress ==
    /\ kpc = "last_key"
    /\ cfg' = IF key.pressed # 0
              THEN [cfg EXCEPT !.cursor.last_key = key.keycode]
              ELSE cfg
    /\ kpc' = "keymap"
    /\ UNCHANGED <<now, mutex, writerVars, returned_ok, tpc, wpc, injectVars,
                   key, sq>>

\* Line 441.
KeyLastKey ==
    /\ kpc = "last_key"
    /\ cfg' = [cfg EXCEPT !.cursor.last_key = key.keycode]
    /\ kpc' = "keymap"
    /\ UNCHANGED <<now, mutex, writerVars, returned_ok, tpc, wpc, injectVars,
                   key, sq>>

\* A walk that goes on after a match and ends on the last node that has
\* the keycode.
RECURSIVE keymap_walk_last(_, _)
keymap_walk_last(km, keycode) ==
    IF km = << >>
    THEN << >>
    ELSE LET later == keymap_walk_last(Tail(km), keycode)
         IN  IF later # << >>
             THEN later
             ELSE IF Head(km).keycode = keycode THEN << Head(km) >> ELSE << >>

\* Lines 448-450, 474-475: the walk from the node km on, up to the first
\* node that has the keycode (<< node >>), or to the end of the list
\* (<< >>).  A node is [keycode, action, instant_release, slot, params],
\* params the first three ints of the union: click.x, click.y,
\* click.duration, which are hold.x, hold.y, hold.pressure.
RECURSIVE keymap_walk(_, _)
keymap_walk(km, keycode) ==
    IF km = << >>
    THEN << >>
    ELSE IF Head(km).keycode = keycode
         THEN << Head(km) >>
         ELSE keymap_walk(Tail(km), keycode)

\* Lines 448-476, up to the first call of send_touch_event_safe.  No code
\* of the driver adds a node to keymap_list.
KeyMapWalk ==
    /\ kpc = "keymap"
    /\ LET m == keymap_walk(cfg.keymap_list, key.keycode)
       IN  IF m = << >>
           THEN kpc' = "idle" /\ key' = NoKey
           ELSE LET km == m[1]
                IN  IF key.pressed # 0
                    THEN IF km.action = 0
                         THEN /\ kpc' = "send"
                              /\ key' = [key EXCEPT
                                           !.args = <<km.slot, km.params[1],
                                                      km.params[2], 100>>,
                                           !.next = "click"]
                         ELSE IF km.action = 1
                         THEN /\ kpc' = "send"
                              /\ key' = [key EXCEPT
                                           !.args = <<km.slot, km.params[1],
                                                      km.params[2],
                                                      km.params[3]>>,
                                           !.next = "done"]
                         ELSE kpc' = "idle" /\ key' = NoKey
                    ELSE IF km.instant_release # 0
                         THEN /\ kpc' = "send"
                              /\ key' = [key EXCEPT
                                           !.args = <<km.slot, 0, 0, 0>>,
                                           !.next = "done"]
                         ELSE kpc' = "idle" /\ key' = NoKey
    /\ UNCHANGED <<cfg, now, mutex, writerVars, returned_ok, tpc, wpc,
                   injectVars, sq>>

\* Lines 457-460: msleep(km->params.click.duration), then the release of
\* the click.
KeyClickSleep ==
    /\ kpc = "click"
    /\ LET km == keymap_walk(cfg.keymap_list, key.keycode)[1]
       IN  key' = [key EXCEPT !.args = <<km.slot, km.params[1],
                                         km.params[2], 0>>,
                              !.next = "done"]
    /\ kpc' = "send"
    /\ UNCHANGED <<cfg, now, mutex, writerVars, returned_ok, tpc, wpc,
                   injectVars, sq>>

\* Lines 474, 477: the break out of the walk, and the return.
KeyDone ==
    /\ kpc = "done"
    /\ kpc' = "idle"
    /\ key' = NoKey
    /\ UNCHANGED <<cfg, now, mutex, writerVars, returned_ok, tpc, wpc,
                   injectVars, sq>>

(***************************************************************************)
(* The client's side of the protocol: the CRC-16 a client computes         *)
(* (reflected, polynomial 0xA001, initial value 0xFFFF), in its bit-serial *)
(* form, one message bit at a time from the least significant bit of each  *)
(* byte.  The frames below are built with it, not with the driver's        *)
(* simple_crc16.                                                           *)
(***************************************************************************)
\* v with its bit of weight p flipped.
RefFlip(v, p) == IF (v \div p) % 2 = 1 THEN v - p ELSE v + p

\* One message bit: the feedback is the register's low bit xor the bit.
RefBit(crc, bit) ==
    IF (crc + bit) % 2 = 1
    THEN RefFlip(RefFlip(RefFlip(crc \div 2, 32768), 8192), 1)
    ELSE crc \div 2

RefByte(crc, byte) ==
    RefBit(RefBit(RefBit(RefBit(RefBit(RefBit(RefBit(RefBit(crc,
        byte % 2), (byte \div 2) % 2), (byte \div 4) % 2),
        (byte \div 8) % 2), (byte \div 16) % 2), (byte \div 32) % 2),
        (byte \div 64) % 2), (byte \div 128) % 2)

RECURSIVE RefRange(_, _, _, _)
RefRange(data, lo, hi, crc) ==
    IF lo > hi THEN crc
    ELSE IF lo = hi THEN RefByte(crc, data[lo])
    ELSE LET mid  == (lo + hi) \div 2
             left == RefRange(data, lo, mid, crc)
         IN  IF left >= 0 THEN RefRange(data, mid + 1, hi, left) ELSE left

RefCrc16(data) == RefRange(data, 1, Len(data), 65535)

(***************************************************************************)
(* The buffers the callers write: frames built the way a client builds     *)
(* them, and malformed ones.                                               *)
(***************************************************************************)
LE16(v) == << v % 256, (v \div 256) % 256 >>

\* The bytes of the u32 given as the int v with the same bits.
LE32(v) == << v % 256, (v \div 256) % 256, (v \div 65536) % 256,
              (v \div 16777216) % 256 >>

\* The payload field number k (from 0) of the frames below.
FieldValue(k) == 101 + k

\* n payload fields, numbers k..k+n-1.
RECURSIVE Fields(_, _)
Fields(k, n) == IF n = 0 THEN << >> ELSE LE32(FieldValue(k)) \o Fields(k + 1, n - 1)

\* r trailing bytes, too few to make a field.
Trailing(r) == [i \in 1..r |-> 200 + i]

\* The command byte and payload: n whole fields, then r trailing bytes.
Body(cmd, n, r) == <<cmd>> \o Fields(0, n) \o Trailing(r)

\* The command byte and one u32 payload value v (and a second one, v2).
Body1(cmd, v) == <<cmd>> \o LE32(v)

Body2(cmd, v, v2) == <<cmd>> \o LE32(v) \o LE32(v2)

\* A frame: magic, then the CRC of the body plus d (d = 0: correct), then
\* the body.
Frame(magic, d, body) ==
    LE32(magic) \o LE16((RefCrc16(body) + d) % 65536) \o body

Good(body) == Frame(MAGIC_SIGNATURE, 0, body)

\* A frame whose CRC field holds the CRC of the whole frame, header and all.
WholeCrcFrame(body) ==
    LE32(MAGIC_SIGNATURE)
    \o LE16(RefCrc16(LE32(MAGIC_SIGNATURE) \o <<0, 0>> \o body))
    \o body

\* One magic byte flipped.
BadMagic == MAGIC_SIGNATURE + 256

MalformedFrames ==
    { <<81>>,                                          \* 1 byte
      SubSeq(Good(<<CMD_ACTIVATE>>), 1, 6),            \* header, no command
      SubSeq(Frame(BadMagic, 1, <<CMD_ACTIVATE>>), 1, 6),
      Frame(BadMagic, 0, <<CMD_ACTIVATE>>),            \* magic only is wrong
      Frame(BadMagic, 1, <<CMD_ACTIVATE>>),            \* magic and CRC wrong
      Frame(MAGIC_SIGNATURE, 1, <<CMD_ACTIVATE>>),     \* CRC only is wrong
      Frame(MAGIC_SIGNATURE, 256, Body(CMD_SET_JOYSTICK, 1, 0)),
      WholeCrcFrame(Body1(CMD_SET_MODE, MODE_CURSOR)) }

\* Frames of every length around each command's minimum length.
LengthFrames ==
       { Good(Body(c, 0, r)) : c \in { CMD_ACTIVATE, CMD_DEACTIVATE,
                                       CMD_HEARTBEAT }, r \in {0, 1} }
  \cup { Good(Body(CMD_SET_CONFIG, n, r)) :
           n \in 0..1, r \in {0, 3} }                  \* 7, 10, 11, 14
  \cup { Good(Body2(CMD_SET_CONFIG, MODE_JOYSTICK, 5)),          \* 15
         Good(Body2(CMD_SET_CONFIG, 7, -1) \o <<9>>) }  \* 16
  \cup { Good(Body(CMD_SET_MODE, 0, r)) : r \in {0, 2, 3} }      \* 7, 9, 10
  \cup { Good(Body1(CMD_SET_MODE, MODE_CURSOR)),                 \* 11
         Good(Body1(CMD_SET_MODE, -2) \o <<9>>) }       \* 12
  \cup { Good(Body(CMD_SET_SENSITIVITY, 0, r)) : r \in {0, 3} }  \* 7, 10
  \cup { Good(Body1(CMD_SET_SENSITIVITY, v)) :
           v \in {0, 1, 500, 10000, 10001, INT_MAX, INT_MIN, -1} }  \* 11
  \cup { Good(Body(CMD_SET_KEY_MAPPING, 0, r)) : r \in {0, 3} }  \* 7, 10
  \cup { Good(Body1(CMD_SET_KEY_MAPPING, v)) : v \in {0, 1} }    \* 11
  \cup { Good(Body(c, n, 0)) : c \in {CMD_GET_STATUS, 0, 255}, n \in {0, 1} }

\* Frames of CMD_SET_JOYSTICK (6 fields) and CMD_SET_SLIDE_KEY (8 fields)
\* holding every number of whole fields, also one more than the command
\* reads, and trailing bytes short of a field.
PrefixFrames ==
       { Good(Body(CMD_SET_JOYSTICK, n, 0)) : n \in 0..7 }
  \cup { Good(Body(CMD_SET_JOYSTICK, n, r)) : n \in {0, 2, 5}, r \in {1, 3} }
  \cup { Good(Body(CMD_SET_SLIDE_KEY, n, 0)) : n \in 0..9 }
  \cup { Good(Body(CMD_SET_SLIDE_KEY, n, r)) : n \in {0, 3, 7}, r \in {2, 3} }

\* Writes longer than the 256 bytes stealth_write copies: a frame of 257
\* bytes that is correct as a whole, and a correct frame of 256 bytes followed
\* by one more byte.
Zeros(n) == [i \in 1..n |-> 0]

OversizeFrames ==
    { Good(<<CMD_ACTIVATE>> \o Zeros(250)),
      Good(<<CMD_ACTIVATE>> \o Zeros(249)) \o <<7>> }

ProtoFrames ==
    MalformedFrames \cup LengthFrames \cup PrefixFrames \cup OversizeFrames

ProtoChecked == Checked(ProtoFrames)

(***************************************************************************)
(* SpecProto: the command channel with one writer, every frame above.      *)
(***************************************************************************)
ProtoWriter == "w1"

InitWriters ==
    /\ pc   = [w \in Writers |-> "idle"]
    /\ buf  = [w \in Writers |-> << >>]
    /\ ret  = [w \in Writers |-> 0]
    /\ site = [w \in Writers |-> "none"]
    /\ reg  = [w \in Writers |-> 0]
    /\ mutex = NoOwner

\* The timer and the worker are started by stealth_driver_init; nothing has
\* been injected.
InitContexts ==
    /\ tpc = "idle"
    /\ wpc = "sleep"
    /\ ipc = "idle"
    /\ call = NoCall
    /\ sink = << >>
    /\ kpc = "idle"
    /\ key = NoKey
    /\ sq = NoSqrt

InitProto ==
    /\ cfg = InitConfig
    /\ now = 0
    /\ returned_ok = 0
    /\ InitWriters
    /\ InitContexts

NextProto ==
    \/ StealthWrite(ProtoWriter, ProtoChecked)
    \/ MutexLock(ProtoWriter)
    \/ PhcSwitch(ProtoWriter)
    \/ PhcActivateTime(ProtoWriter)
    \/ PhcCount(ProtoWriter)
    \/ PhcCountStore(ProtoWriter)
    \/ PhcUnlock(ProtoWriter)
    \/ WriteReturn(ProtoWriter)
    \/ Tick(Instants)

SpecProto == InitProto /\ [][NextProto]_vars
(***************************************************************************)
(* SpecCrc: one writer writes frames over every short body of a small      *)
(* alphabet, with the CRC field right or off by a delta, or computed over  *)
(* the whole frame.                                                        *)
(***************************************************************************)
MaxBody == 3     \* bodies (command byte and payload) of 1..MaxBody bytes

CrcAlphabet == {0, 255, CMD_ACTIVATE, CMD_DEACTIVATE}

CrcDeltas == {0, 1, 256, 65535}

RECURSIVE Bodies(_)
Bodies(n) ==
    IF n = 0 THEN { << >> }
    ELSE { <<b>> \o t : b \in CrcAlphabet, t \in Bodies(n - 1) }

CrcBodies == UNION { Bodies(n) : n \in 1..MaxBody }

CrcFrames ==
    { Frame(MAGIC_SIGNATURE, d, b) : d \in CrcDeltas, b \in CrcBodies }
        \cup { WholeCrcFrame(b) : b \in CrcBodies }

CrcChecked == Checked(CrcFrames)

NextCrc ==
    \/ StealthWrite(ProtoWriter, CrcChecked)
    \/ MutexLock(ProtoWriter)
    \/ PhcSwitch(ProtoWriter)
    \/ PhcActivateTime(ProtoWriter)
    \/ PhcCount(ProtoWriter)
    \/ PhcCountStore(ProtoWriter)
    \/ PhcUnlock(ProtoWriter)
    \/ WriteReturn(ProtoWriter)

SpecCrc == InitProto /\ [][NextCrc]_vars

(***************************************************************************)
(* Spec: the driver's contexts together.  Two writers, the heartbeat       *)
(* timer, the worker and a context injecting touches run interleaved, from *)
(* the state after stealth_driver_init or from that state with 10000       *)
(* commands counted (10000 writes of an empty SET_JOYSTICK lead there).    *)
(***************************************************************************)
\* One frame rejected before the mutex, one rejected by the switch, and the
\* commands that set and clear activated.
ConcFrames ==
    { Frame(MAGIC_SIGNATURE, 1, <<CMD_HEARTBEAT>>),
      Good(<<CMD_GET_STATUS>>),
      Good(<<CMD_ACTIVATE>>),
      Good(<<CMD_DEACTIVATE>>) }

ConcChecked == Checked(ConcFrames)

\* A touch at the joystick's centre, and the release of its slot.
ConcTouches == { <<3, 700, 1500, 100>>, <<3, 0, 0, 0>> }

ConcRandom == { 0 }

Init ==
    /\ \E s \in {0, WORKER_THRESHOLD} :
         /\ cfg = [InitConfig EXCEPT !.stats_commands = s]
         /\ returned_ok = s
    /\ now = 0
    /\ InitWriters
    /\ InitContexts

Write(w) ==
    \/ StealthWrite(w, ConcChecked)
    \/ MutexLock(w)
    \/ PhcSwitch(w)
    \/ PhcActivateTime(w)
    \/ PhcCount(w)
    \/ PhcCountStore(w)
    \/ PhcUnlock(w)
    \/ WriteReturn(w)

Next ==
    \/ \E w \in Writers : Write(w)
    \/ Tick({Late})
    \/ WatchdogCheck
    \/ WatchdogStore
    \/ WorkerCheck
    \/ WorkerLock
    \/ WorkerReset
    \/ WorkerUnlock
    \/ Inject(ConcTouches)
    \/ InjectClamp(ConcRandom)
    \/ InjectEmit
    \/ InjectCountLoad
    \/ InjectCountStore

Spec == Init /\ [][Next]_vars

(***************************************************************************)
(* SpecInject: one writer activates the driver and sets jitter_range with  *)
(* SET_CONFIG, while touches are injected with arguments inside, at and    *)
(* beyond the screen's edges and the pressure range.                       *)
(***************************************************************************)
\* jitter_range as SET_CONFIG stores it: the payload's 32 bits read as an
\* int.  2^30 is the least value whose jitter_range * 2 + 1 overflows.
JitterValues ==
    { 0, 1, 2800, 1073741823, 1073741824, INT_MAX, -1, INT_MIN }

InjectFrames ==
    { Good(<<CMD_ACTIVATE>>) }
        \cup { Good(Body2(CMD_SET_CONFIG, MODE_SILENT, j)) : j \in JitterValues }

InjectChecked == Checked(InjectFrames)

InjectPoints ==
    { <<INT_MIN, -100>>, <<-100, 1000>>, <<0, 1999>>, <<2799, 5000>>,
      <<5000, -100>>, <<INT_MAX, INT_MAX>> }

InjectTouches ==
    { <<0, xy[1], xy[2], p>> : xy \in InjectPoints, p \in {-1, 0, 1, 255, 300} }

InjectRandom == { 0, 1, 255, 1400 * 256 + 5, INT_MAX, -1, INT_MIN }

NextInject ==
    \/ StealthWrite(ProtoWriter, InjectChecked)
    \/ MutexLock(ProtoWriter)
    \/ PhcSwitch(ProtoWriter)
    \/ PhcActivateTime(ProtoWriter)
    \/ PhcCount(ProtoWriter)
    \/ PhcCountStore(ProtoWriter)
    \/ PhcUnlock(ProtoWriter)
    \/ WriteReturn(ProtoWriter)
    \/ Inject(InjectTouches)
    \/ InjectClamp(InjectRandom)
    \/ InjectEmit
    \/ InjectCountLoad
    \/ InjectCountStore

SpecInject == InitProto /\ [][NextInject]_vars

(***************************************************************************)
(* SpecKeys: key events are handled while one writer activates the driver, *)
(* sets the mode and configures the joystick.                              *)
(***************************************************************************)
\* SET_JOYSTICK with the centre of stealth_driver_init, and a radius and a
\* dead zone.
JoystickBody(radius, deadzone) ==
    <<CMD_SET_JOYSTICK>> \o LE32(700) \o LE32(1500) \o LE32(radius)
        \o LE32(deadzone)

\* <<radius, deadzone>>: a small radius without dead zone.
JoystickShapes == { <<4, 0>> }

KeyFrames ==
    { Good(<<CMD_ACTIVATE>>),
      Good(Body1(CMD_SET_MODE, -2)) }
        \cup { Good(JoystickBody(sh[1], sh[2])) : sh \in JoystickShapes }

KeyChecked == Checked(KeyFrames)

\* Presses and releases of key_up, key_right and the mode switch key of
\* stealth_driver_init, and the press of a key that is none of them.
KeyEvents ==
    { <<17, 1>>, <<17, 0>>, <<32, 1>>, <<32, 0>>, <<59, 1>>, <<59, 0>>,
      <<57, 1>> }

KeyRandom == { 0 }

NextKeys ==
    \/ StealthWrite(ProtoWriter, KeyChecked)
    \/ MutexLock(ProtoWriter)
    \/ PhcSwitch(ProtoWriter)
    \/ PhcActivateTime(ProtoWriter)
    \/ PhcCount(ProtoWriter)
    \/ PhcCountStore(ProtoWriter)
    \/ PhcUnlock(ProtoWriter)
    \/ WriteReturn(ProtoWriter)
    \/ HandleKey(KeyEvents)
    \/ KeySend
    \/ KeyReturn
    \/ KeySleep
    \/ KeyTapDone
    \/ KeyLastKey
    \/ KeyMapWalk
    \/ InjectClamp(KeyRandom)
    \/ InjectEmit
    \/ InjectCountLoad
    \/ InjectCountStore

SpecKeys == InitProto /\ [][NextKeys]_vars

(***************************************************************************)
(* SpecJoystick: the four direction keys and the mode switch key are       *)
(* pressed, and key_up released, while one writer activates the driver     *)
(* and disables the joystick.                                              *)
(***************************************************************************)
\* SET_JOYSTICK with the values of stealth_driver_init but enabled = 0.
JoystickOff ==
    JoystickBody(150, 10) \o LE32(3) \o LE32(0)

JoystickFrames == { Good(<<CMD_ACTIVATE>>), Good(JoystickOff) }

JoystickChecked == Checked(JoystickFrames)

JoystickEvents ==
    { <<17, 1>>, <<31, 1>>, <<30, 1>>, <<32, 1>>, <<17, 0>>, <<59, 1>> }

NextJoystick ==
    \/ StealthWrite(ProtoWriter, JoystickChecked)
    \/ MutexLock(ProtoWriter)
    \/ PhcSwitch(ProtoWriter)
    \/ PhcActivateTime(ProtoWriter)
    \/ PhcCount(ProtoWriter)
    \/ PhcCountStore(ProtoWriter)
    \/ PhcUnlock(ProtoWriter)
    \/ WriteReturn(ProtoWriter)
    \/ HandleKey(JoystickEvents)
    \/ KeySend
    \/ KeyReturn
    \/ KeySleep
    \/ KeyTapDone
    \/ KeyLastKey
    \/ KeyMapWalk
    \/ InjectClamp(KeyRandom)
    \/ InjectEmit
    \/ InjectCountLoad
    \/ InjectCountStore

SpecJoystick == InitProto /\ [][NextJoystick]_vars

(***************************************************************************)
(* SpecWatchdog: the heartbeat timer runs while one writer activates the   *)
(* driver and sends heartbeats, and jiffies passes whole seconds around    *)
(* the ends of the windows opened at seconds 0 and 20.                     *)
(***************************************************************************)
WatchFrames == { Good(<<CMD_ACTIVATE>>), Good(<<CMD_HEARTBEAT>>) }

WatchChecked == Checked(WatchFrames)

WatchSeconds == { 20, 30, 31, 49, 50, 51 }

WatchInstants == { s * HZ : s \in WatchSeconds }

NextWatchdog ==
    \/ StealthWrite(ProtoWriter, WatchChecked)
    \/ MutexLock(ProtoWriter)
    \/ PhcSwitch(ProtoWriter)
    \/ PhcActivateTime(ProtoWriter)
    \/ PhcCount(ProtoWriter)
    \/ PhcCountStore(ProtoWriter)
    \/ PhcUnlock(ProtoWriter)
    \/ WriteReturn(ProtoWriter)
    \/ Tick(WatchInstants)
    \/ WatchdogCheck
    \/ WatchdogStore

SpecWatchdog == InitProto /\ [][NextWatchdog]_vars

(***************************************************************************)
(* SpecCounters: the contexts that write the four counters.  Two writers   *)
(* activate the driver and count clicks and commands, a context injects    *)
(* touches and counts moves, and the worker clears the counters.           *)
(***************************************************************************)
CounterFrames ==
    { Good(<<CMD_ACTIVATE>>), Good(Body1(CMD_SET_KEY_MAPPING, 1)) }

CounterChecked == Checked(CounterFrames)

NextCounters ==
    \/ \E w \in Writers :
         \/ StealthWrite(w, CounterChecked)
         \/ MutexLock(w)
         \/ PhcSwitch(w)
         \/ PhcActivateTime(w)
         \/ PhcCount(w)
         \/ PhcCountStore(w)
         \/ PhcUnlock(w)
         \/ WriteReturn(w)
    \/ WorkerCheck
    \/ WorkerLock
    \/ WorkerReset
    \/ WorkerUnlock
    \/ Inject(ConcTouches)
    \/ InjectClamp(ConcRandom)
    \/ InjectEmit
    \/ InjectCountLoad
    \/ InjectCountStore

SpecCounters == Init /\ [][NextCounters]_vars

(***************************************************************************)
(* SpecKeymap: the walk of handle_key_mapping over a key-mapping list.     *)
(* The list is the walk's input: no command of the driver adds a node      *)
(* (SET_KEY_MAPPING counts a click and stores nothing), so the lists are   *)
(* drawn at the start, every list of up to MaxNodes nodes of KeymapNodes.  *)
(* One writer activates the driver and writes SET_KEY_MAPPING; keys are    *)
(* pressed and released in the mode of stealth_driver_init.                *)
(***************************************************************************)
MaxNodes == 2

\* <<action, instant_release, slot>>: a click (0), a hold (1) and a swipe
\* (2), with and without the release of the slot on the key's release.
KeymapShapes == { <<0, 0, 1>>, <<1, 1, 2>>, <<2, 1, 1>> }

\* Nodes for two keys.
KeymapNodes ==
    { [keycode |-> k, action |-> sh[1], instant_release |-> sh[2],
       slot |-> sh[3], params |-> <<540, 1200, 50>>] :
        k \in {17, 32}, sh \in KeymapShapes }

KeymapLists ==
    UNION { [1..n -> KeymapNodes] : n \in 0..MaxNodes }

InitKeymap ==
    /\ \E l \in KeymapLists : cfg = [InitConfig EXCEPT !.keymap_list = l]
    /\ now = 0
    /\ returned_ok = 0
    /\ InitWriters
    /\ InitContexts

KeymapEvents == { <<17, 1>>, <<17, 0>>, <<32, 1>> }

NextKeymap ==
    \/ StealthWrite(ProtoWriter, CounterChecked)
    \/ MutexLock(ProtoWriter)
    \/ PhcSwitch(ProtoWriter)
    \/ PhcActivateTime(ProtoWriter)
    \/ PhcCount(ProtoWriter)
    \/ PhcCountStore(ProtoWriter)
    \/ PhcUnlock(ProtoWriter)
    \/ WriteReturn(ProtoWriter)
    \/ HandleKey(KeymapEvents)
    \/ KeySend
    \/ KeyReturn
    \/ KeyMapWalk
    \/ KeyClickSleep
    \/ KeyDone
    \/ InjectClamp(KeyRandom)
    \/ InjectEmit
    \/ InjectCountLoad
    \/ InjectCountStore

SpecKeymap == InitKeymap /\ [][NextKeymap]_vars

(***************************************************************************)
(* SpecSqrt: fast_sqrt is called with arguments around the squares of      *)
(* SqrtRoots, and with the least and the greatest int.                     *)
(***************************************************************************)
SqrtRoots ==
    (1..16) \cup { 100, 141, 255, 256, 1000, 4096, 16384, 23170, 32767,
                   32768, 32769, 40000, 46340 }

SqrtInputs ==
    { (r * r) + d : r \in SqrtRoots, d \in {-1, 0, 1} }
        \cup { 0, -1, -100, INT_MIN, INT_MAX }

NextSqrt ==
    \/ FastSqrtCall(SqrtInputs)
    \/ FastSqrtReturn

SpecSqrt == InitProto /\ [][NextSqrt]_vars

(***************************************************************************)
(* SpecMutex: two writers and the worker contend for the mutex, with       *)
(* commands that succeed and commands that fail inside the switch.  The    *)
(* scheduler keeps every thread running: a step that stays enabled is      *)
(* taken (weak fairness), and mutex_lock hands the mutex to a waiter that  *)
(* finds it free again and again (strong fairness: the kernel's mutex      *)
(* queues its waiters and hands the lock over to the first of them).       *)
(* Nothing makes a caller write.                                           *)
(***************************************************************************)
\* ACTIVATE, SET_MODE without its payload, and a command code the switch
\* does not know.
MutexFrames ==
    { Good(<<CMD_ACTIVATE>>), Good(<<CMD_SET_MODE>>), Good(<<85>>) }

MutexChecked == Checked(MutexFrames)

NextMutex ==
    \/ \E w \in Writers :
         \/ StealthWrite(w, MutexChecked)
         \/ MutexLock(w)
         \/ PhcSwitch(w)
         \/ PhcActivateTime(w)
         \/ PhcCount(w)
         \/ PhcCountStore(w)
         \/ PhcUnlock(w)
         \/ WriteReturn(w)
    \/ WorkerCheck
    \/ WorkerLock
    \/ WorkerReset
    \/ WorkerUnlock

SpecMutex ==
    /\ Init
    /\ [][NextMutex]_vars
    /\ \A w \in Writers :
         /\ SF_vars(MutexLock(w))
         /\ WF_vars(PhcSwitch(w) \/ PhcActivateTime(w) \/ PhcCount(w)
                      \/ PhcCountStore(w) \/ PhcUnlock(w))
    /\ SF_vars(WorkerLock)
    /\ WF_vars(WorkerReset \/ WorkerUnlock)

(***************************************************************************)
(* SpecTap: keys are pressed, the mode switch key among them, while one    *)
(* writer activates and deactivates the driver.  A handler that was        *)
(* entered runs to its return, a call of the injection to its end, and a   *)
(* write to its return: they are threads the scheduler keeps running.      *)
(* Nothing makes a key event or a write happen.                            *)
(***************************************************************************)
TapEvents == { <<59, 1>>, <<57, 1>> }

NextTap ==
    \/ StealthWrite(ProtoWriter, ConcChecked)
    \/ MutexLock(ProtoWriter)
    \/ PhcSwitch(ProtoWriter)
    \/ PhcActivateTime(ProtoWriter)
    \/ PhcCount(ProtoWriter)
    \/ PhcCountStore(ProtoWriter)
    \/ PhcUnlock(ProtoWriter)
    \/ WriteReturn(ProtoWriter)
    \/ HandleKey(TapEvents)
    \/ KeySend
    \/ KeyReturn
    \/ KeySleep
    \/ KeyTapDone
    \/ KeyLastKey
    \/ KeyMapWalk
    \/ InjectClamp(KeyRandom)
    \/ InjectEmit
    \/ InjectCountLoad
    \/ InjectCountStore

SpecTap ==
    /\ InitProto
    /\ [][NextTap]_vars
    /\ WF_vars(KeySend \/ KeyReturn \/ KeySleep \/ KeyTapDone \/ KeyLastKey
                 \/ KeyMapWalk)
    /\ WF_vars(InjectClamp(KeyRandom) \/ InjectEmit \/ InjectCountLoad
                 \/ InjectCountStore)
    /\ WF_vars(MutexLock(ProtoWriter) \/ PhcSwitch(ProtoWriter)
                 \/ PhcActivateTime(ProtoWriter) \/ PhcCount(ProtoWriter)
                 \/ PhcCountStore(ProtoWriter) \/ PhcUnlock(ProtoWriter)
                 \/ WriteReturn(ProtoWriter))

(***************************************************************************)
(* Properties.  What a frame is, is read off the written bytes here, on    *)
(* the client's side: the magic as its four bytes, the CRC with RefCrc16.  *)
(***************************************************************************)
\* The bytes of a write the driver looks at: the first 256.
Seen(f) == SubSeq(f, 1, IF Len(f) > 256 THEN 256 ELSE Len(f))

\* 0x51444953, little-endian.
RefMagic == <<83, 73, 68, 81>>

RefLE32(d, off) ==
    d[off + 1] + 256 * d[off + 2] + 65536 * d[off + 3]
        + 16777216 * (IF d[off + 4] >= 128 THEN d[off + 4] - 256 ELSE d[off + 4])

RefCrcOk(d) == d[5] + 256 * d[6] = RefCrc16(SubSeq(d, 7, Len(d)))

\* The first of the three checks a write fails, in the order length, magic,
\* CRC; "pass" when it fails none.
RefClass(f) ==
    LET d == Seen(f)
    IN  IF Len(d) < 7 THEN "short"
        ELSE IF SubSeq(d, 1, 4) # RefMagic THEN "magic"
        ELSE IF ~RefCrcOk(d) THEN "crc"
        ELSE "pass"

ProtoClasses == { <<f, RefClass(f)>> : f \in ProtoFrames }

ProtoClass(f) == (CHOOSE p \in ProtoClasses : p[1] = f)[2]

\* Writer w is in a call whose frame passed the three checks.
Framed(w) == pc[w] # "idle" /\ site[w] \notin {"none", "short", "magic", "crc"}

CmdOf(w) == buf[w][7]

\* C1: a write that is too short, or else has a wrong magic, or else a wrong
\* CRC field, is ended with -EINVAL by the first of these checks it fails,
\* in the order length, magic, CRC, in one step from idle that does not
\* take the mutex and changes nothing of the configuration.
C1_RejectedInOrderBeforeMutex ==
    [][\A w \in Writers :
         (pc[w] # "done" /\ pc'[w] = "done" /\ ProtoClass(buf'[w]) # "pass")
             => /\ pc[w] = "idle"
                /\ ret'[w] = -EINVAL
                /\ site'[w] = ProtoClass(buf'[w])
                /\ mutex' = mutex
                /\ mutex # w
                /\ cfg' = cfg]_vars

\* A frame with both a wrong magic and a wrong CRC field was rejected for
\* its magic.
C1_Witness ==
    \E w \in Writers :
        /\ pc[w] = "done"
        /\ buf[w] = Frame(BadMagic, 1, <<CMD_ACTIVATE>>)
        /\ site[w] = "magic"
        /\ ret[w] = -EINVAL
        /\ mutex = NoOwner

\* C2: no step of a write that ends in an error changes the configuration
\* or a counter: the steps before the switch and after the return change
\* nothing, and no step that leaves the call's result negative does.
C2_ErrorWriteChangesNothing ==
    [][\A w \in Writers :
         (pc'[w] # pc[w] /\ (ret'[w] < 0 \/ pc[w] \in {"idle", "lock", "done"}))
             => cfg' = cfg]_vars

\* A SET_KEY_MAPPING was rejected after a command had been counted.
C2_Witness ==
    \E w \in Writers :
        /\ pc[w] = "done"
        /\ ret[w] = -EINVAL
        /\ site[w] = "keymap"
        /\ cfg.stats_commands = 1
        /\ cfg.activated = 1

CrcKnownAnswers ==
    /\ simple_crc16(<<49, 50, 51, 52, 53, 54, 55, 56, 57>>) = 19255
    /\ simple_crc16(<< >>) = 65535

\* C3: a frame with the right magic passes the integrity check exactly when
\* its CRC field is the reflected CRC-16 (polynomial 0xA001, initial value
\* 0xFFFF) of the bytes from offset 6 on, and is rejected with -EINVAL at
\* the CRC check otherwise; the CRC of "123456789" is 0x4B37.
C3_CrcRoundTrip ==
    /\ CrcKnownAnswers
    /\ \A w \in Writers :
         (pc[w] # "idle" /\ Len(buf[w]) >= 7 /\ SubSeq(buf[w], 1, 4) = RefMagic)
             => IF RefCrcOk(Seen(buf[w]))
                THEN Framed(w)
                ELSE pc[w] = "done" /\ site[w] = "crc" /\ ret[w] = -EINVAL

\* A three-byte body with its CRC passed the check and was dispatched.
C3_Witness ==
    \E w \in Writers :
        /\ pc[w] = "count"
        /\ buf[w] = Frame(MAGIC_SIGNATURE, 0, <<CMD_DEACTIVATE, 255, 0>>)
        /\ site[w] = "ok"

MinLenCommands ==
    { CMD_ACTIVATE, CMD_DEACTIVATE, CMD_HEARTBEAT, CMD_SET_CONFIG,
      CMD_SET_MODE, CMD_SET_SENSITIVITY, CMD_SET_JOYSTICK, CMD_SET_SLIDE_KEY,
      CMD_SET_KEY_MAPPING }

\* The minimum lengths as declared, the one of SET_KEY_MAPPING being km.
MinLen(cmd, km) ==
    CASE cmd = CMD_SET_CONFIG      -> 15
      [] cmd = CMD_SET_MODE        -> 11
      [] cmd = CMD_SET_SENSITIVITY -> 11
      [] cmd = CMD_SET_KEY_MAPPING -> km
      [] OTHER                     -> 7

\* C4, as stated: with the minimum length 7 declared for SET_KEY_MAPPING, a
\* finished write of a frame shorter than L - 1 returned -EINVAL, and one of
\* a frame of length L or more with correct magic and CRC returned its
\* length.
C4_DeclaredMinLengths ==
    \A w \in Writers :
        (pc[w] = "done" /\ Len(buf[w]) >= 7 /\ CmdOf(w) \in MinLenCommands)
            => LET n == Len(Seen(buf[w]))
                   L == MinLen(CmdOf(w), 7)
               IN  /\ n < L - 1 => ret[w] = -EINVAL
                   /\ (n >= L /\ ProtoClass(buf[w]) = "pass") => ret[w] = n

\* C4, amended: the minimum length of SET_KEY_MAPPING is 11.  With it, a
\* finished write of a frame shorter than L returned -EINVAL, and one of a
\* frame of length L or more with correct magic and CRC returned its length.
C4_EffectiveMinLengths ==
    \A w \in Writers :
        (pc[w] = "done" /\ Len(buf[w]) >= 7 /\ CmdOf(w) \in MinLenCommands)
            => LET n == Len(Seen(buf[w]))
                   L == MinLen(CmdOf(w), 11)
               IN  /\ n < L => ret[w] = -EINVAL
                   /\ (n >= L /\ ProtoClass(buf[w]) = "pass") => ret[w] = n

\* A correctly framed SET_KEY_MAPPING of 10 bytes was rejected by the
\* command itself.
C4_Witness ==
    \E w \in Writers :
        /\ pc[w] = "done"
        /\ buf[w] = Good(Body(CMD_SET_KEY_MAPPING, 0, 3))
        /\ site[w] = "keymap"
        /\ ret[w] = -EINVAL

\* The step writer w takes from position p.
StepFrom(w, p) == pc[w] = p /\ pc'[w] # p

\* C5: in a correctly framed ACTIVATE, DEACTIVATE or HEARTBEAT, the switch
\* stores activated = 1 (then activate_time = jiffies in a step of its own),
\* activated = 0, or activate_time = jiffies, and nothing else; the command
\* is then counted once, nothing else changes, and the write returns the
\* frame's length.
C5_ActivationCommands ==
    [][\A w \in Writers :
         (Framed(w) /\ CmdOf(w) \in {CMD_ACTIVATE, CMD_DEACTIVATE, CMD_HEARTBEAT})
             => /\ (StepFrom(w, "switch") /\ CmdOf(w) = CMD_ACTIVATE)
                     => /\ cfg' = [cfg EXCEPT !.activated = 1]
                        /\ pc'[w] = "activate_time"
                /\ StepFrom(w, "activate_time")
                     => /\ cfg' = [cfg EXCEPT !.activate_time = now]
                        /\ pc'[w] = "count"
                /\ (StepFrom(w, "switch") /\ CmdOf(w) = CMD_DEACTIVATE)
                     => /\ cfg' = [cfg EXCEPT !.activated = 0]
                        /\ pc'[w] = "count"
                /\ (StepFrom(w, "switch") /\ CmdOf(w) = CMD_HEARTBEAT)
                     => /\ cfg' = [cfg EXCEPT !.activate_time = now]
                        /\ pc'[w] = "count"
                /\ StepFrom(w, "count")
                     => cfg' = cfg /\ pc'[w] = "count_store"
                /\ StepFrom(w, "count_store")
                     => /\ cfg' = [cfg EXCEPT !.stats_commands = @ + 1]
                        /\ pc'[w] = "unlock"
                /\ StepFrom(w, "unlock")
                     => /\ cfg' = cfg
                        /\ pc'[w] = "done"
                        /\ ret'[w] = Len(Seen(buf[w]))]_vars

\* An ACTIVATE written as the second command, at a later jiffy, has
\* returned 7.
C5_Witness ==
    \E w \in Writers :
        /\ pc[w] = "done"
        /\ buf[w] = Good(<<CMD_ACTIVATE>>)
        /\ ret[w] = 7
        /\ now > 0
        /\ cfg = [InitConfig EXCEPT !.activated = 1, !.activate_time = now,
                                    !.stats_commands = 2]

C6_JoystickFields ==
    << "center_x", "center_y", "radius", "deadzone", "move_slot", "enabled" >>

C6_SlideKeyFields ==
    << "enabled", "trigger_key", "slide_x", "slide_y", "max_radius",
       "sensitivity", "hold_time", "release_delay" >>

\* The record rec with the first K of the fields flds set to the first K
\* little-endian words of d from offset 7 on, and every other field kept.
PrefixApplied(rec, flds, K, d) ==
    [name \in DOMAIN rec |->
        IF \E i \in 1..Len(flds) : flds[i] = name /\ i <= K
        THEN LET i == CHOOSE i \in 1..Len(flds) : flds[i] = name
             IN  RefLE32(d, 7 + 4 * (i - 1))
        ELSE rec[name]]

\* C6: the switch of a SET_JOYSTICK or SET_SLIDE_KEY frame of length
\* 7 + 4K + r, 0 <= r < 4, sets the first K fields of the command to the
\* first K words of the payload and changes nothing else, whatever the r
\* trailing bytes.
C6_StrictPrefix ==
    [][\A w \in Writers :
         (Framed(w) /\ StepFrom(w, "switch"))
             => LET d == Seen(buf[w])
                    K == (Len(d) - 7) \div 4
                IN  /\ CmdOf(w) = CMD_SET_JOYSTICK
                         => cfg' = [cfg EXCEPT !.joystick =
                               PrefixApplied(@, C6_JoystickFields, K, d)]
                    /\ CmdOf(w) = CMD_SET_SLIDE_KEY
                         => cfg' = [cfg EXCEPT !.slide_key =
                               PrefixApplied(@, C6_SlideKeyFields, K, d)]]_vars

\* A SET_JOYSTICK of 7 + 4 * 2 + 3 bytes has set center_x and center_y and
\* left radius as it was.
C6_Witness ==
    \E w \in Writers :
        /\ pc[w] = "count"
        /\ buf[w] = Good(Body(CMD_SET_JOYSTICK, 2, 3))
        /\ cfg.joystick = [InitConfig.joystick EXCEPT
                              !.center_x = FieldValue(0),
                              !.center_y = FieldValue(1)]

\* The writers inside the mutex-protected region of process_hidden_command.
WritersInside ==
    { w \in Writers :
        pc[w] \in {"switch", "activate_time", "count", "count_store", "unlock"} }

WorkerInside ==
    wpc \in {"reset_moves", "reset_clicks", "reset_slides", "reset_commands",
             "unlock"}

\* C7: stats_commands is the number of writes that returned success since
\* the worker last cleared it, plus the write that has stored its increment
\* and not yet returned: every successful dispatch counts once, and no
\* increment is lost, whatever the interleaving.
C7_CommandsCounted ==
    cfg.stats_commands
        = returned_ok + Cardinality({ w \in Writers : pc[w] = "unlock" /\ ret[w] = 0 })

\* After the worker cleared the counters (a touch was reported and counted,
\* and stats_moves is 0 again), one writer has returned success and the
\* other has counted its command and holds the mutex.
C7_Witness ==
    /\ pc["w1"] = "done" /\ ret["w1"] = 7
    /\ pc["w2"] = "unlock" /\ ret["w2"] = 0
    /\ returned_ok = 1
    /\ cfg.stats_commands = 2
    /\ cfg.stats_moves = 0
    /\ ipc = "idle"
    /\ sink # << >>

\* C8: at most one context, a writer in process_hidden_command or the worker
\* in its reset, is inside the region the mutex protects, and it is the
\* owner of the mutex.
C8_MutualExclusion ==
    /\ Cardinality(WritersInside) + (IF WorkerInside THEN 1 ELSE 0) <= 1
    /\ \A w \in WritersInside : mutex = w
    /\ WorkerInside => mutex = Worker
    /\ (WritersInside = {} /\ ~WorkerInside) => mutex = NoOwner

\* Both writers wait for the mutex while the worker clears the counters.
C8_Witness ==
    /\ \A w \in Writers : pc[w] = "lock"
    /\ wpc = "reset_commands"
    /\ mutex = Worker

\* C9: a report reaches the input device only while activated is set.
C9_NoReportWhileInactive ==
    [][(ipc = "emit" /\ ipc' = "count") => cfg.activated # 0]_vars

\* The value a report gives the axis named name.
Axis(r, name) ==
    LET i == CHOOSE i \in 1..Len(r.axes) : r.axes[i][1] = name
    IN  r.axes[i][2]

\* C10: the report of an active contact carries x in [0, screen_width - 1],
\* y in [0, screen_height - 1] and a pressure in [1, 255].
C10_ActiveContactInRange ==
    \A i \in 1..Len(sink) :
        sink[i].finger = 1
            => /\ Axis(sink[i], "ABS_MT_POSITION_X") \in 0..(cfg.screen_width - 1)
               /\ Axis(sink[i], "ABS_MT_POSITION_Y") \in 0..(cfg.screen_height - 1)
               /\ Axis(sink[i], "ABS_MT_PRESSURE") \in 1..255

\* With a jitter_range whose double overflows, a touch requested right of
\* and below the screen with too high a pressure has been reported at the
\* screen's right edge, thrown to the top edge by the jitter.
C10_Witness ==
    /\ ipc = "count"
    /\ cfg.jitter_range = 1073741824
    /\ Len(sink) = 1
    /\ sink[1].finger = 1
    /\ Axis(sink[1], "ABS_MT_POSITION_X") = 2799
    /\ Axis(sink[1], "ABS_MT_POSITION_Y") = 0
    /\ Axis(sink[1], "ABS_MT_PRESSURE") = 255

\* The step of lines 305-325 for the request (5000, -100) with a positive
\* pressure.
ClampStepOfFarRequest ==
    /\ ipc = "clamp" /\ ipc' = "emit"
    /\ call.x = 5000 /\ call.y = -100 /\ call.pressure > 0

\* The step of lines 328-341 reports an active contact where the locals x
\* and y say.
ReportsLocals ==
    (ipc = "emit" /\ ipc' = "count" /\ call.pressure > 0)
        => /\ Axis(sink'[1], "ABS_MT_POSITION_X") = call.x
           /\ Axis(sink'[1], "ABS_MT_POSITION_Y") = call.y

\* C11, as stated: with the screen 2800 x 2000 and the service activated, a
\* request at (5000, -100) with a positive pressure is reported at exactly
\* (2799, 0).
C11_FarRequestAtCorner ==
    [][/\ ClampStepOfFarRequest => (call'.x = 2799 /\ call'.y = 0)
       /\ ReportsLocals]_vars

\* C11, amended: it is reported at exactly (2799, 0) when jitter_range is
\* 0 or less, and within jitter_range of it, at x in [2799 - j, 2799] and
\* y in [0, j], when jitter_range is j > 0.
C11_FarRequestNearCorner ==
    [][/\ (ClampStepOfFarRequest /\ cfg.jitter_range <= 0)
            => (call'.x = 2799 /\ call'.y = 0)
       /\ (ClampStepOfFarRequest /\ cfg.jitter_range > 0)
            => /\ call'.x <= 2799 /\ call'.x >= 0
               /\ call'.x >= 2799 - cfg.jitter_range
               /\ call'.y >= 0 /\ call'.y <= 1999
               /\ call'.y <= cfg.jitter_range
       /\ ReportsLocals]_vars

\* With jitter_range 0, a contact has been reported at (2799, 0).
C11_Witness ==
    /\ ipc = "count"
    /\ cfg.jitter_range = 0
    /\ cfg.screen_width = 2800 /\ cfg.screen_height = 2000
    /\ Len(sink) = 1
    /\ sink[1].finger = 1
    /\ Axis(sink[1], "ABS_MT_POSITION_X") = 2799
    /\ Axis(sink[1], "ABS_MT_POSITION_Y") = 0
    /\ Axis(sink[1], "ABS_MT_PRESSURE") = 1

\* C12: current_mode is one of CURSOR (0), VIEW (1), JOYSTICK (2) and
\* SILENT (3).
C12_ModeIsOneOfFour ==
    cfg.current_mode \in {MODE_CURSOR, MODE_VIEW, MODE_JOYSTICK, MODE_SILENT}

\* A step of update_joystick_state for a vector that is not zero: the
\* branch of lines 389-409, which ends with the call at pressure 100.
JoystickMoved ==
    /\ kpc = "idle" /\ kpc' = "send"
    /\ cfg.current_mode = MODE_JOYSTICK
    /\ key'.args[4] = 100

\* The square of the distance of the stored position from the centre.
JoystickDistance2(j) ==
    ((j.current_x - j.center_x) * (j.current_x - j.center_x))
        + ((j.current_y - j.center_y) * (j.current_y - j.center_y))

\* C13: after every joystick update that yields a vector that is not zero,
\* the position stored, which is the position passed to the injection, is
\* within radius of the centre:
\* (current_x - center_x)^2 + (current_y - center_y)^2 <= radius^2.
C13_JoystickWithinRadius ==
    [][JoystickMoved
          => /\ JoystickDistance2(cfg'.joystick)
                   <= cfg'.joystick.radius * cfg'.joystick.radius
             /\ key'.args = <<cfg'.joystick.move_slot, cfg'.joystick.current_x,
                              cfg'.joystick.current_y, 100>>]_vars

\* jiffies at a whole second.
Second(n) == n * HZ

\* More than the initial heartbeat_interval of 30 seconds, that is 31
\* seconds or more, have passed since activate_time was written.
WindowOver == now - cfg.activate_time > Second(30)

\* C14: with heartbeat_interval = 30, a tick of the watchdog finds the
\* window expired exactly when activated is set and now - activate_time is
\* strictly greater than 30 seconds, so after 31 seconds without HEARTBEAT
\* or ACTIVATE; the tick that found it so clears activated; and after a
\* HEARTBEAT at second 20, activated is not cleared through second 49.
C14_WatchdogWindow ==
    /\ [](cfg.heartbeat_interval = 30
            /\ (heartbeat_expired(cfg, now) <=> (cfg.activated = 1 /\ WindowOver)))
    /\ [][/\ (tpc = "idle" /\ tpc' = "store")
                => (cfg.activated = 1 /\ WindowOver)
          /\ (tpc = "store" /\ tpc' = "idle") => cfg'.activated = 0
          /\ (cfg.activated = 1 /\ cfg.activate_time = Second(20)
                /\ now <= Second(49))
                => (cfg'.activated = 1 /\ tpc' = "idle")]_vars

\* The HEARTBEAT of second 20 was the last command, and the tick of second
\* 51, 31 seconds later, has cleared activated.
C14_Witness ==
    /\ cfg.activated = 0
    /\ cfg.activate_time = Second(20)
    /\ now = Second(51)
    /\ tpc = "idle"
    /\ pc[ProtoWriter] = "done"
    /\ CmdOf(ProtoWriter) = CMD_HEARTBEAT

\* C15: once a successful ACTIVATE has returned, activated is true and
\* stays true until a DEACTIVATE is applied or a tick of the watchdog finds
\* more than heartbeat_interval seconds passed since the activate_time that
\* ACTIVATE (or a later HEARTBEAT) wrote.  No DEACTIVATE is written here,
\* and jiffies never goes back: while the ACTIVATE is the last command and
\* its window is not over, activated is 1.
C15_ActiveUntilExpiry ==
    \A w \in Writers :
        (/\ pc[w] = "done" /\ ret[w] > 0
         /\ CmdOf(w) = CMD_ACTIVATE
         /\ ~WindowOver)
            => cfg.activated = 1

\* The counter a step of the worker's reset clears.
ResetField ==
    [reset_moves |-> "stats_moves", reset_clicks |-> "stats_clicks",
     reset_slides |-> "stats_slides", reset_commands |-> "stats_commands"]

\* C16: the worker's test passes exactly when stats_commands exceeds 10000.
\* While stats_commands <= 10000 the worker does not leave its sleep and
\* changes nothing; when it leaves it, each of its four steps stores zero
\* into one of the four counters with the mutex held, and the counters the
\* mutex guards are all zero when the worker releases it.
C16_WorkerReset ==
    /\ [](wpc = "sleep"
            => IF cfg.stats_commands > 10000
               THEN ENABLED (WorkerCheck /\ wpc' = "lock")
               ELSE ~ENABLED (WorkerCheck /\ wpc' # "sleep"))
    /\ [][/\ (wpc = "sleep" /\ wpc' # "sleep")
                => (cfg.stats_commands > 10000 /\ cfg' = cfg /\ wpc' = "lock")
          /\ (wpc \in DOMAIN ResetField /\ wpc' # wpc)
                => /\ mutex = Worker /\ mutex' = Worker
                   /\ cfg'[ResetField[wpc]] = 0
          /\ (wpc = "unlock" /\ wpc' # wpc)
                => /\ mutex = Worker /\ mutex' = NoOwner
                   /\ cfg.stats_clicks = 0 /\ cfg.stats_slides = 0
                   /\ cfg.stats_commands = 0]_vars

\* The worker found 10001 commands counted and a move counted, and has
\* cleared the four counters; it still holds the mutex.
C16_Witness ==
    /\ wpc = "unlock" /\ mutex = Worker
    /\ cfg.stats_moves = 0 /\ cfg.stats_clicks = 0
    /\ cfg.stats_slides = 0 /\ cfg.stats_commands = 0
    /\ sink # << >>

Counters == { "stats_moves", "stats_clicks", "stats_slides", "stats_commands" }

\* C17: each of the four counters is non-decreasing across every step but
\* the steps of the worker's reset.
C17_CountersNonDecreasing ==
    [][(wpc \notin DOMAIN ResetField \/ wpc' = wpc)
          => \A f \in Counters : cfg'[f] >= cfg[f]]_vars

\* A move, a click and two commands were counted.
C17_Witness ==
    /\ cfg.stats_moves > 0 /\ cfg.stats_clicks > 0
    /\ cfg.stats_commands = 2 /\ wpc = "sleep"

\* clamp(v, 1, 10000) of the u32 whose 32 bits are those of the int v: the
\* values from 2^31 on are the negative ints.
ClampU32(v) ==
    IF v = 0 THEN 1
    ELSE IF v < 0 \/ v > 10000 THEN 10000
    ELSE v

\* C18: SET_SENSITIVITY with the u32 payload v stores clamp(v, 1, 10000) in
\* view.sensitivity, for every v in [0, 2^32): 1 when v < 1, v when
\* 1 <= v <= 10000, 10000 when v > 10000.
C18_SensitivityClamped ==
    [][\A w \in Writers :
         (/\ Framed(w) /\ CmdOf(w) = CMD_SET_SENSITIVITY
          /\ Len(Seen(buf[w])) >= 11
          /\ StepFrom(w, "switch"))
             => cfg'.view.sensitivity = ClampU32(RefLE32(Seen(buf[w]), 7))]_vars

\* The nine commands the switch has a case for.
HandledCommands ==
    { CMD_ACTIVATE, CMD_DEACTIVATE, CMD_HEARTBEAT, CMD_SET_CONFIG,
      CMD_SET_MODE, CMD_SET_SENSITIVITY, CMD_SET_JOYSTICK, CMD_SET_SLIDE_KEY,
      CMD_SET_KEY_MAPPING }

\* C19: a frame that passes the validation and carries GET_STATUS or any
\* other command byte outside the nine handled commands takes the default
\* case: the switch sets the error -EINVAL, the error of the validation
\* failures, and changes nothing; the command is not counted, nothing is
\* reported, and the write returns -EINVAL.
C19_UnknownCommandRejected ==
    [][\A w \in Writers :
         (Framed(w) /\ CmdOf(w) \notin HandledCommands /\ pc'[w] # pc[w])
             => /\ cfg' = cfg /\ sink' = sink /\ returned_ok' = returned_ok
                /\ StepFrom(w, "switch")
                     => /\ ret'[w] = -EINVAL /\ site'[w] = "unknown"
                        /\ pc'[w] = "count"
                /\ StepFrom(w, "count") => pc'[w] = "unlock"
                /\ StepFrom(w, "unlock")
                     => ret'[w] = -EINVAL /\ pc'[w] = "done"]_vars

\* A GET_STATUS frame was written after a command had been counted, and
\* the write has returned -EINVAL from the default case.
C19_Witness ==
    \E w \in Writers :
        /\ pc[w] = "done"
        /\ site[w] = "unknown"
        /\ CmdOf(w) = CMD_GET_STATUS
        /\ ret[w] = -EINVAL
        /\ cfg.stats_commands = 1

\* A step of handle_key_mapping from its entry: no writer, timer, worker or
\* injection moves, and the handler or the configuration does.
KeyTaken ==
    /\ kpc = "idle"
    /\ pc' = pc /\ ipc' = ipc /\ tpc' = tpc /\ wpc' = wpc /\ now' = now
    /\ (kpc' # kpc \/ cfg' # cfg)

\* C20: a press of the mode switch key advances current_mode to
\* (current_mode + 1) mod 4 and consumes the event: the handler returns at
\* once, having changed nothing else, so the press reaches neither the
\* joystick update, nor the cursor's last_key, nor the key mapping list,
\* nor the injection.  A release of the key does not change current_mode.
C20_ModeSwitchPress ==
    [][KeyTaken
          => /\ kpc' = "idle"
                  => /\ cfg' = [cfg EXCEPT
                                  !.current_mode = (cfg.current_mode + 1) % 4]
                     /\ UNCHANGED <<key, call, sink>>
             /\ kpc' # "idle"
                  => /\ ~(key'.keycode = cfg.mode_switch_key
                            /\ key'.pressed # 0)
                     /\ cfg'.current_mode = cfg.current_mode]_vars

\* A key event enters update_joystick_state, which does not return at
\* line 350.
JoystickUpdated ==
    /\ kpc = "idle" /\ kpc' # "idle"
    /\ cfg.current_mode = MODE_JOYSTICK
    /\ cfg.joystick.enabled # 0

\* The event ends with the call of send_touch_event_safe for a press.
JoystickPress == kpc' = "send" /\ key'.args[4] = 100

\* C21: in joystick mode, with up and down both pressed the vertical
\* displacement is zero, and with left and right both pressed the
\* horizontal displacement is zero; with nothing pressed but opposing
\* pairs the vector is zero, no press is sent for the key event and the
\* stored position is left as it was.
C21_OpposingKeysCancel ==
    [][JoystickUpdated
          => LET j  == cfg'.joystick
                 ks == j.key_states
             IN  /\ (JoystickPress /\ Bit(ks, 0) = 1 /\ Bit(ks, 1) = 1)
                        => (j.current_y = j.center_y
                              /\ key'.args[3] = j.center_y)
                 /\ (JoystickPress /\ Bit(ks, 2) = 1 /\ Bit(ks, 3) = 1)
                        => (j.current_x = j.center_x
                              /\ key'.args[2] = j.center_x)
                 /\ ks \in {3, 12, 15}
                        => /\ ~JoystickPress
                           /\ j.current_x = cfg.joystick.current_x
                           /\ j.current_y = cfg.joystick.current_y]_vars

\* Up, down and left are pressed and the driver is active: the press is
\* sent to the left of the centre, at the centre's height.
C21_Witness ==
    /\ cfg.activated = 1
    /\ cfg.joystick.key_states = 7
    /\ kpc = "send"
    /\ key.args = <<3, 550, 1500, 100>>

\* The vector of the pressed directions of the joystick j, a component
\* below the dead zone counted as zero: is it zero?
Magnitude(v) == IF v < 0 THEN -v ELSE v

VectorIsZero(j) ==
    LET ks == j.key_states
        dx == (Bit(ks, 3) - Bit(ks, 2)) * j.radius
        dy == (Bit(ks, 1) - Bit(ks, 0)) * j.radius
    IN  /\ (dx = 0 \/ Magnitude(dx) < j.deadzone)
        /\ (dy = 0 \/ Magnitude(dy) < j.deadzone)

\* C22: a key event whose vector is not zero calls the injection once,
\* with a press of pressure 100 at move_slot and the stored position, and
\* sets joystick.active; one whose vector is zero while joystick.active is
\* set calls it once with a release (pressure 0) at move_slot and clears
\* joystick.active; one whose vector is zero while it is not set calls
\* nothing; and unless current_mode is JOYSTICK and joystick.enabled is not
\* zero, a key event leaves the joystick's state alone and makes no call
\* for it.
C22_JoystickTransitions ==
    [][(kpc = "idle" /\ kpc' # "idle")
          => LET j == cfg'.joystick
             IN  IF JoystickUpdated
                 THEN /\ ~VectorIsZero(j)
                           => /\ kpc' = "send" /\ key'.next = "keymap"
                              /\ key'.args = <<j.move_slot, j.current_x,
                                               j.current_y, 100>>
                              /\ j.active = 1
                      /\ (VectorIsZero(j) /\ cfg.joystick.active # 0)
                           => /\ kpc' = "send" /\ key'.next = "keymap"
                              /\ key'.args = <<j.move_slot, 0, 0, 0>>
                              /\ j = [cfg.joystick EXCEPT
                                        !.active = 0,
                                        !.key_states = j.key_states]
                      /\ (VectorIsZero(j) /\ cfg.joystick.active = 0)
                           => /\ kpc' = "keymap"
                              /\ j = [cfg.joystick EXCEPT
                                        !.key_states = j.key_states]
                 ELSE /\ j = cfg.joystick
                      /\ cfg.current_mode = MODE_JOYSTICK
                           => (kpc' = "keymap" /\ cfg' = cfg)]_vars

\* Up and down are pressed, the joystick was active and the driver is: the
\* release of the joystick's slot has been reported, and active is clear.
C22_Witness ==
    /\ cfg.activated = 1
    /\ cfg.joystick.key_states = 3
    /\ cfg.joystick.active = 0
    /\ kpc = "sent" /\ key.args = <<3, 0, 0, 0>>
    /\ ipc = "count"
    /\ sink = << touch_report([slot |-> 3, x |-> 0, y |-> 0, pressure |-> 0,
                               moves |-> 0]) >>

\* The arguments of the cursor's tap, at pressure p.
CursorTap(p) == <<0, cfg.cursor.current_x, cfg.cursor.current_y, p>>

\* C23: in cursor mode a key event starts a tap, the call of the injection
\* with a press at cursor.current_x/current_y on slot 0 and after the delay
\* the call with the release on slot 0, exactly when it is a press whose
\* keycode equals cursor.last_key; every key event handled in cursor mode,
\* tap or not, press or release, then stores its keycode in last_key, and
\* nothing else writes last_key, so last_key is the keycode of the cursor
\* mode key event before.
C23_CursorTap ==
    [][/\ (kpc = "idle" /\ kpc' # "idle")
            => IF cfg.current_mode = MODE_CURSOR
               THEN IF key'.pressed # 0 /\ key'.keycode = cfg.cursor.last_key
                    THEN /\ kpc' = "send" /\ key'.next = "msleep"
                         /\ key'.args = CursorTap(100)
                    ELSE kpc' = "last_key"
               ELSE kpc' # "last_key" /\ key'.next # "msleep"
       /\ (kpc = "sent" /\ kpc' # kpc) => kpc' = key.next
       /\ (kpc = "msleep" /\ kpc' # kpc)
            => /\ kpc' = "send" /\ key'.next = "tap_done"
               /\ key'.args = CursorTap(0)
       /\ (kpc = "tap_done" /\ kpc' # kpc) => kpc' = "last_key"
       /\ (kpc = "last_key" /\ kpc' # kpc)
            => /\ cfg'.cursor.last_key = key.keycode
               /\ kpc' = "keymap"
       /\ cfg'.cursor.last_key # cfg.cursor.last_key => kpc = "last_key"
       /\ key'.keycode # key.keycode => (kpc = "idle" \/ kpc' = "idle")]_vars

\* In cursor mode key 17 was pressed twice while the driver was active:
\* the tap's release has been reported on slot 0 and last_key is 17.
C23_Witness ==
    /\ cfg.activated = 1
    /\ cfg.cursor.last_key = 17
    /\ kpc = "tap_done"
    /\ key.keycode = 17 /\ key.pressed = 1
    /\ cfg.stats_moves = 2
    /\ sink = << touch_report([slot |-> 0, x |-> 0, y |-> 0, pressure |-> 0,
                               moves |-> 0]) >>

\* The positions of the nodes of keymap_list that have the key's keycode.
Matches == { i \in 1..Len(cfg.keymap_list) :
               cfg.keymap_list[i].keycode = key.keycode }

\* The first of them in the order of the list.
FirstMatch ==
    cfg.keymap_list[CHOOSE i \in Matches : \A j \in Matches : i <= j]

\* C24: the key-mapping lookup is first-match-wins: for a key event only the
\* first node of the list whose keycode is the event's decides what is
\* injected (a click: press, delay, release at the node's slot and
\* coordinates; a hold: one press with the node's pressure and no release; a
\* release of the key with instant_release set: one release), a list
\* without such a node injects nothing, and after the first node's calls the
\* handler returns, so that no later node injects anything for the event.
C24_FirstMatchWins ==
    [][/\ (kpc = "keymap" /\ kpc' # kpc)
            => IF Matches = {}
               THEN kpc' = "idle"
               ELSE LET km == FirstMatch
                    IN  IF key.pressed # 0 /\ km.action = 0
                        THEN /\ kpc' = "send" /\ key'.next = "click"
                             /\ key'.args = <<km.slot, km.params[1],
                                              km.params[2], 100>>
                        ELSE IF key.pressed # 0 /\ km.action = 1
                        THEN /\ kpc' = "send" /\ key'.next = "done"
                             /\ key'.args = <<km.slot, km.params[1],
                                              km.params[2], km.params[3]>>
                        ELSE IF key.pressed = 0 /\ km.instant_release # 0
                        THEN /\ kpc' = "send" /\ key'.next = "done"
                             /\ key'.args = <<km.slot, 0, 0, 0>>
                        ELSE kpc' = "idle"
       /\ (kpc = "click" /\ kpc' # kpc)
            => /\ kpc' = "send" /\ key'.next = "done"
               /\ key'.args = <<FirstMatch.slot, FirstMatch.params[1],
                                FirstMatch.params[2], 0>>
       /\ (kpc = "done" /\ kpc' # kpc) => kpc' = "idle"
       /\ sink' # sink
            => /\ Matches # {}
               /\ sink'[1].slot = FirstMatch.slot
       /\ cfg'.keymap_list = cfg.keymap_list]_vars

\* Two nodes for key 17, a click on slot 1 before a hold on slot 2: after
\* the press of key 17 the click's press and release were reported on
\* slot 1, and the handler is about to return.
C24_Witness ==
    /\ Len(cfg.keymap_list) = 2
    /\ cfg.keymap_list[1].keycode = 17 /\ cfg.keymap_list[1].action = 0
    /\ cfg.keymap_list[1].slot = 1
    /\ cfg.keymap_list[2].keycode = 17 /\ cfg.keymap_list[2].action = 1
    /\ cfg.keymap_list[2].slot = 2
    /\ kpc = "done" /\ key.keycode = 17 /\ key.pressed = 1
    /\ cfg.stats_moves = 2
    /\ sink = << touch_report([slot |-> 1, x |-> 0, y |-> 0, pressure |-> 0,
                               moves |-> 0]) >>

\* The tracking id of a report: the value of its last axis.
TrackingId(r) == r.axes[Len(r.axes)][2]

\* The steps of one call of the injection that is not a no-op, in order.
InjectSteps ==
    { <<"idle", "clamp">>, <<"clamp", "emit">>, <<"emit", "count">>,
      <<"count", "count_store">>, <<"count_store", "idle">> }

\* C25: a call of the injection made while the driver is activated reports
\* one contact and syncs it, with the tracking id equal to the slot when the
\* pressure is above 0 and -1 when it is 0, and then adds exactly one to
\* stats_moves, for a press and for a release alike; a call made while the
\* driver is not activated reports nothing and leaves stats_moves as it is.
\* (The input device exists from stealth_driver_init on.)
C25_InjectReportsOnce ==
    [][/\ (kpc = "send" /\ kpc' = "sent")
            => IF cfg.activated = 0
               THEN ipc' = "idle" /\ sink' = sink /\ cfg' = cfg
               ELSE /\ ipc' = "clamp"
                    /\ <<call'.slot, call'.x, call'.y, call'.pressure>>
                         = key.args
       /\ ipc' # ipc => <<ipc, ipc'>> \in InjectSteps
       /\ sink' # sink => ipc = "emit"
       /\ (ipc = "emit" /\ ipc' # ipc)
            => /\ Len(sink') = 1
               /\ sink'[1].slot = call.slot
               /\ sink'[1].finger = (IF call.pressure > 0 THEN 1 ELSE 0)
               /\ TrackingId(sink'[1])
                    = (IF call.pressure > 0 THEN call.slot ELSE -1)
       /\ cfg'.stats_moves # cfg.stats_moves => ipc = "count_store"
       /\ (ipc = "count_store" /\ ipc' # ipc)
            => cfg'.stats_moves = cfg.stats_moves + 1]_vars

\* Key 17, mapped to a node with instant_release on slot 2, was released
\* while the driver was active: the release was reported with tracking id
\* -1 and counted as the first move.
C25_Witness ==
    /\ cfg.activated = 1
    /\ kpc = "sent" /\ key.keycode = 17 /\ key.pressed = 0
    /\ ipc = "idle"
    /\ Len(sink) = 1 /\ sink[1].slot = 2 /\ TrackingId(sink[1]) = -1
    /\ cfg.stats_moves = 1

\* C26: fast_sqrt returns 0 for every x <= 0 and the floor of the square
\* root of x for every int x > 0: the y >= 1 with y * y <= x < (y+1) * (y+1),
\* which is y <= x / y and x / (y+1) < y + 1 in integer division.
C26_FastSqrtIsFloor ==
    sq.pc = "returned"
        => IF sq.x <= 0
           THEN sq.y = 0
           ELSE /\ sq.y >= 1
                /\ sq.y <= sq.x \div sq.y
                /\ sq.x \div (sq.y + 1) < sq.y + 1

\* The last report holds a contact down on slot 0, the slot of the cursor's
\* tap.
TapDown == sink # << >> /\ sink[1].slot = 0 /\ sink[1].finger = 1

\* The last report releases slot 0.
TapUp == sink # << >> /\ sink[1].slot = 0 /\ sink[1].finger = 0

\* C27: every press reported by a synthesized tap is eventually followed by
\* the report of a release on the same slot, a DEACTIVATE during the delay
\* between the two notwithstanding.
C27_TapReleased == TapDown ~> TapUp

\* The last report holds a contact down on the joystick's slot.
JoystickDown ==
    sink # << >> /\ sink[1].slot = cfg.joystick.move_slot
                 /\ sink[1].finger = 1

\* C28: whenever no key handler and no injection is under way,
\* joystick.active is set exactly when the sink holds a contact down on
\* joystick.move_slot.
C28_ActiveIffContact ==
    (kpc = "idle" /\ ipc = "idle")
        => (cfg.joystick.active # 0 <=> JoystickDown)

\* C29: the worker's reset is not lost to an injection under way: the
\* stats_moves++ of a call adds one to the value stats_moves has when it is
\* stored, so that after a reset stats_moves counts the calls that
\* incremented it since.
C29_ResetNotLost ==
    [][(ipc = "count_store" /\ ipc' = "idle")
          => cfg'.stats_moves = cfg.stats_moves + 1]_vars

\* The positions of a writer between mutex_lock and mutex_unlock.
InSwitch == { "switch", "activate_time", "count", "count_store", "unlock" }

\* The positions of the worker between mutex_lock and mutex_unlock.
InReset ==
    { "reset_moves", "reset_clicks", "reset_slides", "reset_commands",
      "unlock" }

\* C30: the mutex is held by a writer exactly from its mutex_lock to the
\* mutex_unlock every command branch ends in, failed commands included, and
\* by the worker exactly during its reset, never in its sleep; whoever
\* holds it releases it, and a writer or the worker that waits for it
\* eventually takes it.
C30_MutexAlwaysReleased ==
    /\ [](\A w \in Writers : mutex = w <=> pc[w] \in InSwitch)
    /\ [](mutex = Worker <=> wpc \in InReset)
    /\ (mutex # NoOwner) ~> (mutex = NoOwner)
    /\ \A w \in Writers : (pc[w] = "lock") ~> (mutex = w)
    /\ (wpc = "lock") ~> (mutex = Worker)

\* Writer w2 holds the mutex at the unlock of a command that failed inside
\* the switch, while writer w1 and the worker wait for the mutex.
C30_Witness ==
    /\ mutex = "w2" /\ pc["w2"] = "unlock" /\ ret["w2"] = -EINVAL
    /\ pc["w1"] = "lock"
    /\ wpc = "lock"

====
